---- MODULE Spec2Model ----
(***************************************************************************)
(* Rate resolution, fee calculation and booking pricing of the             *)
(* tbilisicars back end (app/routes/bookings.py, app/routes/rates.py,      *)
(* app/routes/one_way_fees.py and the models they read and write).         *)
(*                                                                         *)
(* Modelling conventions                                                   *)
(*  - a table is a function from the ids of its rows to records;           *)
(*  - SQL NULL / Python None is Null (-1); no column of the model has a    *)
(*    negative value otherwise;                                            *)
(*  - money is an integer amount (the code converts Numeric(10,2) to float *)
(*    and back without changing the amounts used here);                    *)
(*  - a datetime is a number of ticks, TicksPerDay ticks to the day; its   *)
(*    date is the day the tick falls in;                                   *)
(*  - a string that the code compares or pattern-matches (a city) is a     *)
(*    sequence of one-character strings;                                   *)
(*  - a query ending in .first() without ORDER BY returns any of the rows  *)
(*    that satisfy its filter.                                             *)
(***************************************************************************)
EXTENDS Integers, Sequences, FiniteSets, TLC

VARIABLES rates, tiers, fees, users, bookings, nextId, pricedBy, resp, sessions

vars == <<rates, tiers, fees, users, bookings, nextId, pricedBy, resp, sessions>>

Null == -1

(***************************************************************************)
(* Bounds of the model.                                                    *)
(***************************************************************************)
TicksPerDay == 2
MaxDay == 4
MaxRentalDays == 3
MaxRates == 2
MaxTiers == 2
MaxFees == 2
MaxBookings == 2
MaxUsers == 3

(***************************************************************************)
(* Program constants.                                                      *)
(***************************************************************************)
DefaultPrice == 50

(***************************************************************************)
(* Strings: lower-casing and the SQL ILIKE operator.                       *)
(***************************************************************************)
LowerChar(c) ==
    IF c = "A" THEN "a" ELSE IF c = "B" THEN "b" ELSE c

Lower(s) == [i \in 1..Len(s) |-> LowerChar(s[i])]

RECURSIVE LikeMatch(_, _)
\* value LIKE pattern on lower-cased sequences: "_" matches any one
\* character, "%" any run of characters, every other character itself.
LikeMatch(v, p) ==
    IF p = <<>> THEN v = <<>>
    ELSE IF Head(p) = "%"
         THEN LikeMatch(v, Tail(p)) \/ (v # <<>> /\ LikeMatch(Tail(v), p))
    ELSE IF v = <<>> THEN FALSE
    ELSE (Head(p) = "_" \/ Head(p) = Head(v)) /\ LikeMatch(Tail(v), Tail(p))

ILike(column, pattern) == LikeMatch(Lower(column), Lower(pattern))

\* Python truthiness of an optional string / optional number / optional id.
TruthyStr(s) == s # <<>>
Truthy(n) == n # Null /\ n # 0

(***************************************************************************)
(* Rows that the pricing code only reads: vehicle groups, vehicles and     *)
(* locations.                                                              *)
(***************************************************************************)
VehicleGroups ==
    (1 :> [base_price_per_day |-> 30]) @@
    (2 :> [base_price_per_day |-> Null]) @@
    (3 :> [base_price_per_day |-> 0])

Vehicles ==
    (1 :> [vehicle_group_id |-> 1,    location_id |-> 1,    starting_price |-> 40]) @@
    (2 :> [vehicle_group_id |-> 2,    location_id |-> 3,    starting_price |-> 40]) @@
    (3 :> [vehicle_group_id |-> Null, location_id |-> Null, starting_price |-> 40]) @@
    (4 :> [vehicle_group_id |-> Null, location_id |-> 4,    starting_price |-> Null]) @@
    (5 :> [vehicle_group_id |-> 3,    location_id |-> 5,    starting_price |-> 40]) @@
    (6 :> [vehicle_group_id |-> 2,    location_id |-> 2,    starting_price |-> 0])

NoVehicle == 7

Locations ==
    (1 :> [city |-> <<"a", "b">>]) @@
    (2 :> [city |-> <<"A", "B">>]) @@
    (3 :> [city |-> <<"b">>]) @@
    (4 :> [city |-> <<"a", "_">>]) @@
    (5 :> [city |-> <<>>])

NoLocation == 6

(***************************************************************************)
(* Rental window arithmetic.                                               *)
(***************************************************************************)
\* datetime.date()
DateOf(t) == t \div TicksPerDay

\* (dropoff - pickup).days: timedelta normalises to a floor of whole days.
TimedeltaDays(pickup, dropoff) == (dropoff - pickup) \div TicksPerDay

RentalDaysUnclamped(pickup, dropoff) == TimedeltaDays(pickup, dropoff)

RentalDays(pickup, dropoff) ==
    IF TimedeltaDays(pickup, dropoff) < 1 THEN 1
    ELSE TimedeltaDays(pickup, dropoff)

(***************************************************************************)
(* Rate Resolver.                                                          *)
(***************************************************************************)
\* The filter of the query on Rate.
ApplicableRates(R, pickup_date, rental_days) ==
    {id \in DOMAIN R :
        /\ R[id].is_active
        /\ R[id].valid_from <= pickup_date
        /\ R[id].valid_until >= pickup_date
        /\ R[id].min_days <= rental_days
        /\ (R[id].max_days = Null \/ R[id].max_days >= rental_days)}

PrecedesAscending(R, a, b) ==
    \/ R[a].valid_from < R[b].valid_from
    \/ (R[a].valid_from = R[b].valid_from /\ a < b)

\* ORDER BY valid_from DESC, id DESC
Precedes(R, a, b) ==
    \/ R[a].valid_from > R[b].valid_from
    \/ (R[a].valid_from = R[b].valid_from /\ a > b)

RECURSIVE OrderRates(_, _)
OrderRates(R, S) ==
    IF S = {} THEN <<>>
    ELSE LET top == CHOOSE a \in S : \A b \in S \ {a} : Precedes(R, a, b)
         IN  <<top>> \o OrderRates(R, S \ {top})

TierMatchesNoUpperBound(T, t, rate_id, group_id, rental_days) ==
    /\ T[t].rate_id = rate_id
    /\ T[t].vehicle_group_id = group_id
    /\ T[t].from_days <= rental_days

\* The filter of the query on RateTier.
TierMatches(T, t, rate_id, group_id, rental_days) ==
    /\ T[t].rate_id = rate_id
    /\ T[t].vehicle_group_id = group_id
    /\ T[t].from_days <= rental_days
    /\ (T[t].to_days = Null \/ T[t].to_days >= rental_days)

MatchingTiers(T, rate_id, group_id, rental_days) ==
    {t \in DOMAIN T : TierMatches(T, t, rate_id, group_id, rental_days)}

RECURSIVE WalkRates(_, _, _, _)
\* for rate in applicable_rates: tier = query.first(); if tier: return/break
\* The result is the set of (rate id, tier id) pairs the loop can end with;
\* <<Null, Null>> when it runs off the end.
WalkRates(T, ordered, group_id, rental_days) ==
    IF ordered = <<>> THEN {<<Null, Null>>}
    ELSE LET m == MatchingTiers(T, Head(ordered), group_id, rental_days)
         IN  IF m # {} THEN {<<Head(ordered), t>> : t \in m}
             ELSE WalkRates(T, Tail(ordered), group_id, rental_days)

SelectRateTier(R, T, group_id, pickup_date, rental_days) ==
    WalkRates(T, OrderRates(R, ApplicableRates(R, pickup_date, rental_days)),
              group_id, rental_days)

StartingPriceOrDefault(v) ==
    IF Truthy(Vehicles[v].starting_price) THEN Vehicles[v].starting_price
    ELSE DefaultPrice

\* The fallback at the end of _calculate_rate_for_booking and in the else
\* branch of calculate_price.
GroupFallbackPrice(v) ==
    IF /\ Vehicles[v].vehicle_group_id \in DOMAIN VehicleGroups
       /\ Truthy(VehicleGroups[Vehicles[v].vehicle_group_id].base_price_per_day)
    THEN VehicleGroups[Vehicles[v].vehicle_group_id].base_price_per_day
    ELSE StartingPriceOrDefault(v)

TierPriceWithIncrement(R, T, rate_id, tier_id) ==
    T[tier_id].price_per_day
        + (IF R[rate_id].increment_value # Null THEN R[rate_id].increment_value
           ELSE 0)

\* float(tier.price_per_day): the price reported for a selected tier.
TierPrice(R, T, rate_id, tier_id) == T[tier_id].price_per_day

\* _calculate_rate_for_booking: the set of triples (rate_id, rate_tier_id,
\* price_per_day) it can return.
CalculateRateForBooking(R, T, v, pickup, dropoff) ==
    IF v \notin DOMAIN Vehicles THEN {<<Null, Null, DefaultPrice>>}
    ELSE IF ~Truthy(Vehicles[v].vehicle_group_id)
    THEN {<<Null, Null, StartingPriceOrDefault(v)>>}
    ELSE LET sel == SelectRateTier(R, T, Vehicles[v].vehicle_group_id,
                                   DateOf(pickup), RentalDays(pickup, dropoff))
         IN  {IF s[2] # Null THEN <<s[1], s[2], TierPrice(R, T, s[1], s[2])>>
              ELSE <<Null, Null, GroupFallbackPrice(v)>> : s \in sel}

(***************************************************************************)
(* Fee Calculator.                                                         *)
(***************************************************************************)
\* The duplicate test of create_one_way_fee: both cities by ilike, any status.
FeeRowMatchesAnyStatus(F, f, from_city, to_city) ==
    /\ ILike(F[f].from_city, from_city)
    /\ ILike(F[f].to_city, to_city)

\* OneWayFee.from_city.ilike(from), OneWayFee.to_city.ilike(to),
\* OneWayFee.is_active == True
FeeRowMatches(F, f, from_city, to_city) ==
    /\ ILike(F[f].from_city, from_city)
    /\ ILike(F[f].to_city, to_city)
    /\ F[f].is_active

\* query(OneWayFee).filter(...).first(): the rows it can return.
FeeQuery(F, from_city, to_city) ==
    {f \in DOMAIN F : FeeRowMatches(F, f, from_city, to_city)}

\* "if fee: return float(fee.fee_amount)" and the "return 0.0" after it.
FeeAmounts(F, from_city, to_city) ==
    IF FeeQuery(F, from_city, to_city) = {} THEN {0}
    ELSE {F[f].fee_amount : f \in FeeQuery(F, from_city, to_city)}

SameCityExact(c1, c2) == c1 = c2

\* a.lower() == b.lower()
SameCity(c1, c2) == Lower(c1) = Lower(c2)

LookupOneWayFee(F, pickup_location_id, dropoff_location_id) ==
    IF \/ pickup_location_id \notin DOMAIN Locations
       \/ dropoff_location_id \notin DOMAIN Locations
    THEN {0}
    ELSE FeeAmounts(F, Locations[pickup_location_id].city,
                       Locations[dropoff_location_id].city)

\* _calculate_one_way_fee (bookings.py): the values it can return.
CalculateOneWayFee(F, pickup_location_id, dropoff_location_id) ==
    IF pickup_location_id = dropoff_location_id THEN {0}
    ELSE IF \/ pickup_location_id \notin DOMAIN Locations
            \/ dropoff_location_id \notin DOMAIN Locations
    THEN {0}
    ELSE LET pc == Locations[pickup_location_id].city
             dc == Locations[dropoff_location_id].city
         IN  IF TruthyStr(pc) /\ TruthyStr(dc) /\ SameCity(pc, dc) THEN {0}
             ELSE IF TruthyStr(pc) /\ TruthyStr(dc) THEN FeeAmounts(F, pc, dc)
             ELSE {0}

\* _calculate_delivery_fee (bookings.py): the values it can return.
CalculateDeliveryFee(F, v, pickup_location_id) ==
    IF v \notin DOMAIN Vehicles \/ ~Truthy(Vehicles[v].location_id) THEN {0}
    ELSE IF Vehicles[v].location_id = pickup_location_id THEN {0}
    ELSE IF \/ Vehicles[v].location_id \notin DOMAIN Locations
            \/ pickup_location_id \notin DOMAIN Locations
    THEN {0}
    ELSE LET vc == Locations[Vehicles[v].location_id].city
             pc == Locations[pickup_location_id].city
         IN  IF TruthyStr(vc) /\ TruthyStr(pc) /\ SameCity(vc, pc) THEN {0}
             ELSE IF TruthyStr(vc) /\ TruthyStr(pc) THEN FeeAmounts(F, vc, pc)
             ELSE {0}

\* The one-way fee block of calculate_price (rates.py).
QuoteOneWayFee(F, pickup_location_id, dropoff_location_id) ==
    IF /\ Truthy(pickup_location_id) /\ Truthy(dropoff_location_id)
       /\ pickup_location_id # dropoff_location_id
       /\ pickup_location_id \in DOMAIN Locations
       /\ dropoff_location_id \in DOMAIN Locations
       /\ TruthyStr(Locations[pickup_location_id].city)
       /\ TruthyStr(Locations[dropoff_location_id].city)
       /\ ~SameCity(Locations[pickup_location_id].city,
                    Locations[dropoff_location_id].city)
    THEN FeeAmounts(F, Locations[pickup_location_id].city,
                       Locations[dropoff_location_id].city)
    ELSE {0}

QuoteDeliveryFeeIfResolvable(F, v, pickup_location_id) ==
    IF Vehicles[v].vehicle_group_id = 1
    THEN CalculateDeliveryFee(F, v, pickup_location_id)
    ELSE {0}

\* The delivery fee block of calculate_price (rates.py); v is an existing
\* vehicle.
QuoteDeliveryFee(F, v, pickup_location_id) ==
    IF /\ Truthy(pickup_location_id) /\ Truthy(Vehicles[v].location_id)
       /\ Vehicles[v].location_id # pickup_location_id
       /\ Vehicles[v].location_id \in DOMAIN Locations
       /\ pickup_location_id \in DOMAIN Locations
       /\ TruthyStr(Locations[Vehicles[v].location_id].city)
       /\ TruthyStr(Locations[pickup_location_id].city)
       /\ ~SameCity(Locations[Vehicles[v].location_id].city,
                    Locations[pickup_location_id].city)
    THEN FeeAmounts(F, Locations[Vehicles[v].location_id].city,
                       Locations[pickup_location_id].city)
    ELSE {0}

\* GET /admin/one-way-fees/calculate: the fee_amount values it can return.
CityFeeEndpoint(F, from_city, to_city) ==
    IF SameCity(from_city, to_city) THEN {0}
    ELSE FeeAmounts(F, from_city, to_city)

(***************************************************************************)
(* Datetime strings.  A string is [fmt, tick]: "iso" is accepted by        *)
(* datetime.fromisoformat, has no UTC offset and denotes the tick; "isoz"  *)
(* is accepted too and carries an offset or a trailing Z, so that it       *)
(* parses to an aware datetime; "isoish" is rejected by fromisoformat but  *)
(* starts with a %Y-%m-%d date followed by "T"; "bad" has no parseable     *)
(* date.                                                                   *)
(***************************************************************************)
Midnight(t) == DateOf(t) * TicksPerDay

\* datetime.fromisoformat(s.replace('Z', '+00:00')) returns.
FromIsoFormat(s) == s.fmt \in {"iso", "isoz"}

\* (dropoff - pickup) raises TypeError: one datetime is aware, the other naive.
SubtractionRaises(ps, ds) ==
    FromIsoFormat(ps) /\ FromIsoFormat(ds) /\ ps.fmt # ds.fmt

ParseWindowDatesOnly(ps, ds) ==
    IF ps.fmt # "bad" /\ ds.fmt # "bad"
    THEN <<TRUE, Midnight(ps.tick), Midnight(ds.tick)>>
    ELSE <<FALSE, Null, Null>>

\* The try/except around the two parses in calculate_price and the
\* subtraction after it: <<ok, pickup, dropoff>>, ok FALSE when either raises.
ParseWindowForQuote(ps, ds) ==
    IF FromIsoFormat(ps) /\ FromIsoFormat(ds)
    THEN IF SubtractionRaises(ps, ds) THEN <<FALSE, Null, Null>>
         ELSE <<TRUE, ps.tick, ds.tick>>
    ELSE IF ps.fmt # "bad" /\ ds.fmt # "bad"
    THEN <<TRUE, Midnight(ps.tick), Midnight(ds.tick)>>
    ELSE <<FALSE, Null, Null>>

(***************************************************************************)
(* Requests and responses.  resp is the response of the request being      *)
(* served; Deliver hands it to the caller.                                 *)
(***************************************************************************)
Idle == [op |-> "idle"]

Ticks == 0 .. ((MaxDay + 1) * TicksPerDay - 1)

Iso(t) == [fmt |-> "iso", tick |-> t]

NoBody ==
    [rate_id |-> Null, tier_id |-> Null, rental_days |-> Null,
     price_per_day |-> Null, base_total |-> Null, one_way_fee |-> Null,
     delivery_fee |-> Null, total_with_fees |-> Null, error |-> "",
     fallback_price |-> Null, pickup |-> Null, dropoff |-> Null,
     fee_amount |-> Null, id |-> Null]

TotalWithoutDelivery(base_total, one_way_fee, delivery_fee) ==
    base_total + one_way_fee

\* base_total + one_way_fee + delivery_fee
TotalWithFees(base_total, one_way_fee, delivery_fee) ==
    base_total + one_way_fee + delivery_fee

\* The three return statements of calculate_price.
QuoteBody(v, pickup, dropoff, sel, owf, df) ==
    LET rd == RentalDays(pickup, dropoff)
        common == [NoBody EXCEPT !.rental_days = rd, !.one_way_fee = owf,
                                 !.delivery_fee = df, !.pickup = pickup,
                                 !.dropoff = dropoff]
    IN  IF ~Truthy(Vehicles[v].vehicle_group_id)
        THEN LET fp == StartingPriceOrDefault(v)
             IN  [common EXCEPT !.error = "Vehicle has no vehicle group assigned",
                                !.fallback_price = fp, !.price_per_day = fp,
                                !.base_total = fp * rd,
                                !.total_with_fees = TotalWithFees(fp * rd, owf, df)]
        ELSE IF sel[2] # Null
        THEN LET ppd == TierPrice(rates, tiers, sel[1], sel[2])
             IN  [common EXCEPT !.rate_id = sel[1], !.tier_id = sel[2],
                                !.price_per_day = ppd, !.base_total = ppd * rd,
                                !.total_with_fees = TotalWithFees(ppd * rd, owf, df)]
        ELSE LET fp == GroupFallbackPrice(v)
             IN  [common EXCEPT !.error = "No active rate found for this vehicle and dates",
                                !.fallback_price = fp, !.price_per_day = fp,
                                !.base_total = fp * rd,
                                !.total_with_fees = TotalWithFees(fp * rd, owf, df)]

\* The breakdowns calculate_price can return for an existing vehicle v and a
\* window that parses: the fees, then the rate and tier, then one of the
\* three return statements.
QuoteBodies(v, ps, ds, pl, dl) ==
    LET win == ParseWindowForQuote(ps, ds)
    IN  {QuoteBody(v, win[2], win[3], sel, owf, df) :
            owf \in QuoteOneWayFee(fees, pl, dl),
            df \in QuoteDeliveryFee(fees, v, pl),
            sel \in (IF Truthy(Vehicles[v].vehicle_group_id)
                     THEN SelectRateTier(rates, tiers,
                              Vehicles[v].vehicle_group_id,
                              DateOf(win[2]), RentalDays(win[2], win[3]))
                     ELSE {<<Null, Null>>})}

\* POST /rates/calculate-price
CalculatePrice(v, ps, ds, pl, dl) ==
    /\ resp = Idle
    /\ LET req == [vehicle_id |-> v, pickup_date |-> ps, dropoff_date |-> ds,
                   pickup_location_id |-> pl, dropoff_location_id |-> dl]
           win == ParseWindowForQuote(ps, ds)
       IN  IF v \notin DOMAIN Vehicles
           THEN resp' = [op |-> "calculate_price", req |-> req, status |-> 404,
                         body |-> NoBody]
           ELSE IF ~win[1]
           THEN resp' = [op |-> "calculate_price", req |-> req, status |-> 500,
                         body |-> NoBody]
           ELSE \E body \in QuoteBodies(v, ps, ds, pl, dl) :
                  resp' = [op |-> "calculate_price", req |-> req, status |-> 200,
                           body |-> body]
    /\ UNCHANGED <<rates, tiers, fees, users, bookings, nextId, pricedBy, sessions>>

\* A call of _calculate_rate_for_booking(db, vehicle_id, pickup, dropoff).
RateForBooking(v, pickup, dropoff) ==
    /\ resp = Idle
    /\ \E r \in CalculateRateForBooking(rates, tiers, v, pickup, dropoff) :
          resp' = [op |-> "rate_for_booking",
                   req |-> [vehicle_id |-> v, pickup_date |-> Iso(pickup),
                            dropoff_date |-> Iso(dropoff),
                            pickup_location_id |-> Null,
                            dropoff_location_id |-> Null],
                   status |-> 200,
                   body |-> [NoBody EXCEPT !.rate_id = r[1], !.tier_id = r[2],
                                           !.price_per_day = r[3],
                                           !.rental_days =
                                               IF v \in DOMAIN Vehicles
                                                  /\ Truthy(Vehicles[v].vehicle_group_id)
                                               THEN RentalDays(pickup, dropoff)
                                               ELSE Null,
                                           !.pickup = pickup, !.dropoff = dropoff]]
    /\ UNCHANGED <<rates, tiers, fees, users, bookings, nextId, pricedBy, sessions>>

\* GET /admin/one-way-fees/calculate?from_city=..&to_city=..
CalculateOneWayFeeEndpoint(from_city, to_city) ==
    /\ resp = Idle
    /\ \E fee \in CityFeeEndpoint(fees, from_city, to_city) :
          resp' = [op |-> "city_fee",
                   req |-> [from_city |-> from_city, to_city |-> to_city],
                   status |-> 200,
                   body |-> [NoBody EXCEPT !.fee_amount = fee]]
    /\ UNCHANGED <<rates, tiers, fees, users, bookings, nextId, pricedBy, sessions>>

\* A call of _calculate_one_way_fee(db, pickup_location_id, dropoff_location_id).
OneWayFeeForBooking(pl, dl) ==
    /\ resp = Idle
    /\ \E fee \in CalculateOneWayFee(fees, pl, dl) :
          resp' = [op |-> "one_way_fee",
                   req |-> [pickup_location_id |-> pl, dropoff_location_id |-> dl],
                   status |-> 200,
                   body |-> [NoBody EXCEPT !.one_way_fee = fee]]
    /\ UNCHANGED <<rates, tiers, fees, users, bookings, nextId, pricedBy, sessions>>

\* A call of _calculate_delivery_fee(db, vehicle_id, pickup_location_id).
DeliveryFeeForBooking(v, pl) ==
    /\ resp = Idle
    /\ \E fee \in CalculateDeliveryFee(fees, v, pl) :
          resp' = [op |-> "delivery_fee",
                   req |-> [vehicle_id |-> v, pickup_location_id |-> pl],
                   status |-> 200,
                   body |-> [NoBody EXCEPT !.delivery_fee = fee]]
    /\ UNCHANGED <<rates, tiers, fees, users, bookings, nextId, pricedBy, sessions>>

\* The response leaves the server.
Deliver ==
    /\ resp # Idle
    /\ resp' = Idle
    /\ UNCHANGED <<rates, tiers, fees, users, bookings, nextId, pricedBy, sessions>>

(***************************************************************************)
(* Writes.  A payload is a function from column names to values; columns   *)
(* it does not name keep their value.                                      *)
(***************************************************************************)
\* apply_updates(obj, payload): setattr for every key that is a column.
ApplyUpdates(obj, payload) ==
    [k \in DOMAIN obj |-> IF k \in DOMAIN payload THEN payload[k] ELSE obj[k]]

\* payload.get(key) for a numeric column, payload.get(key, "") for a string.
Get(payload, k) == IF k \in DOMAIN payload THEN payload[k] ELSE Null
GetStr(payload, k) == IF k \in DOMAIN payload THEN payload[k] ELSE ""

Without(table, ids) == [i \in DOMAIN table \ ids |-> table[i]]

\* Rate(): the columns of a new row before the payload is applied.
NewRate ==
    [valid_from |-> Null, valid_until |-> Null, min_days |-> 2, max_days |-> 300,
     is_active |-> TRUE, parent_rate_id |-> Null, increment_value |-> Null,
     price_modifier_value |-> Null]

\* POST /rates
CreateRate(payload) ==
    /\ resp = Idle
    /\ nextId.rate <= MaxRates
    /\ LET obj == ApplyUpdates(NewRate, payload)
       IN  IF /\ obj.valid_from # Null /\ obj.valid_until # Null
              /\ (obj.parent_rate_id = Null \/ obj.parent_rate_id \in DOMAIN rates)
           THEN /\ rates' = rates @@ (nextId.rate :> obj)
                /\ nextId' = [nextId EXCEPT !.rate = @ + 1]
           ELSE UNCHANGED <<rates, nextId>>
    /\ UNCHANGED <<tiers, fees, users, bookings, pricedBy, resp, sessions>>

\* PUT /rates/{item_id}
UpdateRate(id, payload) ==
    /\ resp = Idle
    /\ id \in DOMAIN rates
    /\ rates' = [rates EXCEPT ![id] = ApplyUpdates(@, payload)]
    /\ UNCHANGED <<tiers, fees, users, bookings, nextId, pricedBy, resp, sessions>>

RECURSIVE WithChildRates(_, _)
\* cascade="all, delete-orphan" on Rate.child_rates: the rates deleted with D.
WithChildRates(R, D) ==
    LET more == {c \in DOMAIN R : R[c].parent_rate_id \in D} \ D
    IN  IF more = {} THEN D ELSE WithChildRates(R, D \cup more)

ClearPricesOnDelete(B, deletedRates, deletedTiers) ==
    [b \in DOMAIN B |->
        [B[b] EXCEPT
           !.rate_id = IF @ \in deletedRates THEN Null ELSE @,
           !.rate_tier_id = IF @ \in deletedTiers THEN Null ELSE @,
           !.price_per_day = IF B[b].rate_id \in deletedRates THEN Null ELSE @]]

\* ondelete="SET NULL" on Booking.rate_id and Booking.rate_tier_id.
SetNullOnDelete(B, deletedRates, deletedTiers) ==
    [b \in DOMAIN B |->
        [B[b] EXCEPT
           !.rate_id = IF @ \in deletedRates THEN Null ELSE @,
           !.rate_tier_id = IF @ \in deletedTiers THEN Null ELSE @]]

KeepTiers(T, gone) == {}

\* cascade="all, delete-orphan" on Rate.rate_tiers: the tiers deleted with the
\* rates in gone.
CascadeTiers(T, gone) == {t \in DOMAIN T : T[t].rate_id \in gone}

\* DELETE /rates/{item_id}
DeleteRate(id) ==
    /\ resp = Idle
    /\ id \in DOMAIN rates
    /\ LET gone == WithChildRates(rates, {id})
           goneTiers == CascadeTiers(tiers, gone)
       IN  /\ rates' = Without(rates, gone)
           /\ tiers' = Without(tiers, goneTiers)
           /\ bookings' = SetNullOnDelete(bookings, gone, goneTiers)
    /\ UNCHANGED <<fees, users, nextId, pricedBy, resp, sessions>>

NewRateTier(rate_id) ==
    [rate_id |-> rate_id, vehicle_group_id |-> Null, from_days |-> 0,
     to_days |-> Null, price_per_day |-> Null]

\* POST /rates/{rate_id}/tiers
CreateRateTier(rate_id, payload) ==
    /\ resp = Idle
    /\ nextId.tier <= MaxTiers
    /\ LET obj == ApplyUpdates(NewRateTier(rate_id), payload)
       IN  IF /\ rate_id \in DOMAIN rates
              /\ (~Truthy(Get(payload, "vehicle_group_id"))
                     \/ payload.vehicle_group_id \in DOMAIN VehicleGroups)
              /\ obj.rate_id \in DOMAIN rates
              /\ obj.vehicle_group_id \in DOMAIN VehicleGroups
              /\ obj.price_per_day # Null
           THEN /\ tiers' = tiers @@ (nextId.tier :> obj)
                /\ nextId' = [nextId EXCEPT !.tier = @ + 1]
           ELSE UNCHANGED <<tiers, nextId>>
    /\ UNCHANGED <<rates, fees, users, bookings, pricedBy, resp, sessions>>

\* PUT /rates/tiers/{tier_id}
UpdateRateTier(id, payload) ==
    /\ resp = Idle
    /\ id \in DOMAIN tiers
    /\ LET obj == ApplyUpdates(tiers[id], payload)
       IN  IF obj.rate_id \in DOMAIN rates
              /\ obj.vehicle_group_id \in DOMAIN VehicleGroups
           THEN tiers' = [tiers EXCEPT ![id] = obj]
           ELSE UNCHANGED tiers
    /\ UNCHANGED <<rates, fees, users, bookings, nextId, pricedBy, resp, sessions>>

\* DELETE /rates/tiers/{tier_id}
DeleteRateTier(id) ==
    /\ resp = Idle
    /\ id \in DOMAIN tiers
    /\ tiers' = Without(tiers, {id})
    /\ bookings' = SetNullOnDelete(bookings, {}, {id})
    /\ UNCHANGED <<rates, fees, users, nextId, pricedBy, resp, sessions>>

\* UniqueConstraint("from_city", "to_city")
UniqueCities(F) ==
    \A f, g \in DOMAIN F :
        (F[f].from_city = F[g].from_city /\ F[f].to_city = F[g].to_city) => f = g

FeeResponse(op, id, request, code) ==
    [op |-> op, req |-> request, status |-> code,
     body |-> [NoBody EXCEPT !.id = id]]

\* POST /admin/one-way-fees
CreateOneWayFee(request) ==
    /\ resp = Idle
    /\ nextId.fee <= MaxFees
    /\ IF \E f \in DOMAIN fees :
             FeeRowMatchesAnyStatus(fees, f, request.from_city, request.to_city)
       THEN /\ resp' = FeeResponse("create_one_way_fee", Null, request, 400)
            /\ UNCHANGED <<fees, nextId>>
       ELSE /\ fees' = fees @@ (nextId.fee :> request)
            /\ nextId' = [nextId EXCEPT !.fee = @ + 1]
            /\ resp' = FeeResponse("create_one_way_fee", nextId.fee, request, 200)
    /\ UNCHANGED <<rates, tiers, users, bookings, pricedBy, sessions>>

\* db.commit() of update_one_way_fee under UNIQUE (from_city, to_city): the
\* table after the request, F before it and G with the edit applied.  The
\* IntegrityError is not caught: the handler ends as a server error and the
\* session is closed without a commit.
UpdateCommitted(F, G) == IF UniqueCities(G) THEN G ELSE F

\* PUT /admin/one-way-fees/{fee_id}
UpdateOneWayFee(id, request) ==
    /\ resp = Idle
    /\ IF id \notin DOMAIN fees
       THEN /\ resp' = FeeResponse("update_one_way_fee", id, request, 404)
            /\ UNCHANGED fees
       ELSE LET G == [fees EXCEPT ![id] = ApplyUpdates(@, request)]
            IN  /\ fees' = UpdateCommitted(fees, G)
                /\ resp' = FeeResponse("update_one_way_fee", id, request,
                                       IF UniqueCities(G) THEN 200 ELSE 500)
    /\ UNCHANGED <<rates, tiers, users, bookings, nextId, pricedBy, sessions>>

\* DELETE /admin/one-way-fees/{fee_id}
DeleteOneWayFee(id) ==
    /\ resp = Idle
    /\ IF id \notin DOMAIN fees
       THEN /\ resp' = FeeResponse("delete_one_way_fee", id, <<>>, 404)
            /\ UNCHANGED fees
       ELSE /\ fees' = Without(fees, {id})
            /\ resp' = FeeResponse("delete_one_way_fee", id, <<>>, 200)
    /\ UNCHANGED <<rates, tiers, users, bookings, nextId, pricedBy, sessions>>

(***************************************************************************)
(* Bookings and guest users.  Contact strings are TLA+ strings; "" also    *)
(* stands for None in a nullable string column.                            *)
(***************************************************************************)
\* str.strip() on the contact strings that requests carry here.
Strip(s) == IF s = " " THEN "" ELSE s

\* re.match(r"^[^@\s]+@[^@\s]+\.[^@\s]+$", email)
EmailWellFormed(e) == e \in {"a@x.io", "b@x.io"}

\* _validate_contact_payload: TRUE when it returns, FALSE when it raises 400.
ValidateContactPayload(payload, required) ==
    LET email == Strip(GetStr(payload, "contact_email"))
        first == Strip(GetStr(payload, "contact_first_name"))
        last == Strip(GetStr(payload, "contact_last_name"))
    IN  /\ required => (first # "" /\ last # "")
        /\ email # "" => EmailWellFormed(email)

\* f"guest_{contact_phone.replace('+', '').replace(' ', '')}@tbilisicars.local"
GuestEmailFromPhone(phone) ==
    IF phone \in {"+1", "1"} THEN "guest_1@tbilisicars.local"
    ELSE "guest_2@tbilisicars.local"

\* f"guest_{int(datetime.utcnow().timestamp())}@tbilisicars.local": the
\* addresses the clock can produce.
GuestEmailsFromClock ==
    {"guest_1700000000@tbilisicars.local", "guest_1700000001@tbilisicars.local"}

\* UniqueConstraint("email", name="uq_user_email")
UniqueEmails(U) == \A u, w \in DOMAIN U : U[u].email = U[w].email => u = w

FindUserByEmailOnly(U, email, phone) ==
    IF email # "" THEN {u \in DOMAIN U : U[u].email = email} ELSE {}

\* The lookups of _find_or_create_user: the users .first() can return.
FindUser(U, email, phone) ==
    LET byEmail == IF email # "" THEN {u \in DOMAIN U : U[u].email = email}
                   ELSE {}
    IN  IF byEmail # {} THEN byEmail
        ELSE IF phone # "" THEN {u \in DOMAIN U : U[u].phone = phone}
        ELSE {}

\* The else branch of _find_or_create_user: an existing user takes the
\* contact's names, and its phone and email when they are given.
RefreshUser(user, email, phone, first, last) ==
    [first_name |-> first, last_name |-> last,
     email |-> IF email # "" THEN email ELSE user.email,
     phone |-> IF phone # "" THEN phone ELSE user.phone]

\* The "if not user" branch of _find_or_create_user on the stripped
\* contact: User(...), db.add, db.flush; ok is FALSE when the flush raises.
CreateGuest(U, id, email, phone, first, last) ==
    LET addresses == IF email # "" THEN {email}
                     ELSE IF phone # "" THEN {GuestEmailFromPhone(phone)}
                     ELSE GuestEmailsFromClock
    IN  {LET V == U @@ (id :> [first_name |-> first, last_name |-> last,
                               email |-> a, phone |-> phone])
         IN  [ok |-> UniqueEmails(V), id |-> id, users |-> V]
            : a \in addresses}

\* _find_or_create_user: its outcomes as [ok, users, id]; ok is FALSE when
\* the flush of the new user raises.
FindOrCreateUser(U, id, contact_email, contact_phone, first, last) ==
    LET email == Strip(contact_email)
        phone == Strip(contact_phone)
        found == FindUser(U, email, phone)
    IN  IF found # {}
        THEN {[ok |-> TRUE, id |-> u,
               users |-> [U EXCEPT ![u] = RefreshUser(@, email, phone, first, last)]]
                 : u \in found}
        ELSE CreateGuest(U, id, email, phone, first, last)

\* Booking(): the columns of a new row before the payload is applied.
NewBooking ==
    [user_id |-> Null, vehicle_id |-> Null, pickup_location_id |-> Null,
     dropoff_location_id |-> Null, pickup_datetime |-> Null,
     dropoff_datetime |-> Null, rate_id |-> Null, rate_tier_id |-> Null,
     price_per_day |-> Null, one_way_fee |-> Null, delivery_fee |-> Null,
     total_amount |-> Null, contact_first_name |-> "", contact_last_name |-> "",
     contact_email |-> "", contact_phone |-> ""]

\* default=0 on one_way_fee, delivery_fee and total_amount, applied by the
\* INSERT to the columns never assigned.
InsertDefaults(obj) ==
    [obj EXCEPT !.one_way_fee = IF @ = Null THEN 0 ELSE @,
                !.delivery_fee = IF @ = Null THEN 0 ELSE @,
                !.total_amount = IF @ = Null THEN 0 ELSE @]

\* The NOT NULL and FOREIGN KEY constraints of booking, checked by the commit.
BookingConstraints(obj, U) ==
    /\ obj.user_id \in DOMAIN U
    /\ obj.vehicle_id = Null \/ obj.vehicle_id \in DOMAIN Vehicles
    /\ obj.pickup_location_id \in DOMAIN Locations
    /\ obj.dropoff_location_id \in DOMAIN Locations
    /\ obj.pickup_datetime # Null
    /\ obj.dropoff_datetime # Null
    /\ obj.rate_id = Null \/ obj.rate_id \in DOMAIN rates
    /\ obj.rate_tier_id = Null \/ obj.rate_tier_id \in DOMAIN tiers

\* datetime.fromisoformat(s.replace('Z', '+00:00')): <<ok, datetime>>.
ParseDatetime(s) == IF FromIsoFormat(s) THEN <<TRUE, s.tick>> ELSE <<FALSE, Null>>

\* The subtraction in _calculate_rate_for_booking raises: it is reached for a
\* vehicle with a group, with one aware and one naive datetime.
PricingRaises(payload) ==
    /\ {"vehicle_id", "pickup_datetime", "dropoff_datetime"} \subseteq DOMAIN payload
    /\ payload.vehicle_id \in DOMAIN Vehicles
    /\ Truthy(Vehicles[payload.vehicle_id].vehicle_group_id)
    /\ SubtractionRaises(payload.pickup_datetime, payload.dropoff_datetime)

\* A JSON null in a contact string of the payload.
JsonNull == "null"

\* payload.get(key, "").strip() raises AttributeError on None.
ContactStripRaises(payload) ==
    \E k \in {"contact_email", "contact_first_name", "contact_last_name"} :
        GetStr(payload, k) = JsonNull

KeepFlushed(before, pending) == pending

\* db.rollback() after IntegrityError, and db.close() in get_db after any
\* other exception: the rows as they were before the request.
Rollback(before, pending) == before

SetPricingIfUnset(obj, r) ==
    [obj EXCEPT !.rate_id = IF @ = Null THEN r[1] ELSE @,
                !.rate_tier_id = IF @ = Null THEN r[2] ELSE @,
                !.price_per_day = IF @ = Null THEN r[3] ELSE @]

\* obj.rate_id = rate_id; obj.rate_tier_id = rate_tier_id;
\* obj.price_per_day = price_per_day
SetPricing(obj, r) ==
    [obj EXCEPT !.rate_id = r[1], !.rate_tier_id = r[2], !.price_per_day = r[3]]

\* The three pricing blocks of create_booking: the rows they can leave, each
\* with the origin of its price_per_day ("tier", "fallback", or "payload"
\* when the resolver was not invoked).
PriceNewBooking(R, T, F, obj) ==
    LET priced == /\ Truthy(obj.vehicle_id)
                  /\ obj.pickup_datetime # Null
                  /\ obj.dropoff_datetime # Null
        rs == IF priced
              THEN CalculateRateForBooking(R, T, obj.vehicle_id,
                                           obj.pickup_datetime, obj.dropoff_datetime)
              ELSE {<<Null, Null, Null>>}
        dfs == IF Truthy(obj.vehicle_id) /\ Truthy(obj.pickup_location_id)
               THEN CalculateDeliveryFee(F, obj.vehicle_id, obj.pickup_location_id)
               ELSE {obj.delivery_fee}
        ows == IF Truthy(obj.pickup_location_id) /\ Truthy(obj.dropoff_location_id)
               THEN CalculateOneWayFee(F, obj.pickup_location_id,
                                       obj.dropoff_location_id)
               ELSE {obj.one_way_fee}
    IN  {[obj |-> [(IF priced THEN SetPricing(obj, r) ELSE obj)
                      EXCEPT !.delivery_fee = df, !.one_way_fee = ow],
          by |-> IF ~priced THEN "payload"
                 ELSE IF r[2] # Null THEN "tier" ELSE "fallback"]
            : r \in rs, df \in dfs, ow \in ows}

\* create_booking from "obj = Booking()" to its return, for the outcomes
\* founds of the user resolution: the booking is built, priced and committed
\* together with the user, or the request is rejected and nothing is kept.
PersistBooking(payload, founds) ==
    LET Reject(code, U) ==
            /\ resp' = [op |-> "create_booking", req |-> payload,
                        status |-> code, body |-> NoBody]
            /\ users' = U
            /\ UNCHANGED <<bookings, nextId, pricedBy>>
    IN  \E found \in founds :
           LET pick == IF "pickup_datetime" \in DOMAIN payload
                       THEN ParseDatetime(payload.pickup_datetime)
                       ELSE <<TRUE, Null>>
               drop == IF "dropoff_datetime" \in DOMAIN payload
                       THEN ParseDatetime(payload.dropoff_datetime)
                       ELSE <<TRUE, Null>>
               obj == [ApplyUpdates(NewBooking, payload)
                          EXCEPT !.user_id = found.id,
                                 !.pickup_datetime = pick[2],
                                 !.dropoff_datetime = drop[2]]
           IN  IF ~found.ok \/ ~pick[1] \/ ~drop[1] \/ PricingRaises(payload)
               THEN Reject(500, Rollback(users, found.users))
               ELSE \E priced \in PriceNewBooking(rates, tiers, fees, obj) :
                      IF /\ BookingConstraints(priced.obj, found.users)
                         /\ UniqueEmails(found.users)
                      THEN /\ bookings' = bookings @@
                                 (nextId.booking :> InsertDefaults(priced.obj))
                           /\ users' = found.users
                           /\ pricedBy' = pricedBy @@ (nextId.booking :> priced.by)
                           /\ nextId' =
                                 [nextId EXCEPT
                                    !.booking = @ + 1,
                                    !.user = IF found.id = @ THEN @ + 1 ELSE @]
                           /\ resp' = [op |-> "create_booking",
                                       req |-> payload, status |-> 201,
                                       body |-> [NoBody EXCEPT
                                                   !.id = nextId.booking]]
                      ELSE Reject(400, Rollback(users, found.users))

\* POST /bookings, run without another request in between.
CreateBooking(payload) ==
    /\ resp = Idle
    /\ nextId.booking <= MaxBookings
    /\ nextId.user <= MaxUsers
    /\ LET Reject(code) ==
               /\ resp' = [op |-> "create_booking", req |-> payload,
                           status |-> code, body |-> NoBody]
               /\ UNCHANGED <<users, bookings, nextId, pricedBy>>
       IN  IF ContactStripRaises(payload) THEN Reject(500)
           ELSE IF ~ValidateContactPayload(payload, TRUE) THEN Reject(400)
           ELSE PersistBooking(payload,
                    IF Truthy(Get(payload, "user_id"))
                    THEN {[ok |-> TRUE, id |-> payload.user_id, users |-> users]}
                    ELSE FindOrCreateUser(users, nextId.user,
                                          GetStr(payload, "contact_email"),
                                          GetStr(payload, "contact_phone"),
                                          payload.contact_first_name,
                                          payload.contact_last_name))
    /\ UNCHANGED <<rates, tiers, fees, sessions>>

\* POST /bookings in session s up to the lookups of _find_or_create_user:
\* the payload passed validation and names no user; the session holds the
\* user the lookups returned, as loaded, or Null when they found none.
ResolveGuest(s, payload) ==
    /\ resp = Idle
    /\ s \notin DOMAIN sessions
    /\ ~ContactStripRaises(payload)
    /\ ValidateContactPayload(payload, TRUE)
    /\ ~Truthy(Get(payload, "user_id"))
    /\ LET found == FindUser(users, Strip(GetStr(payload, "contact_email")),
                             Strip(GetStr(payload, "contact_phone")))
       IN  \E u \in (IF found = {} THEN {Null} ELSE found) :
              sessions' = sessions @@
                  (s :> [payload |-> payload, found |-> u,
                         loaded |-> IF u = Null THEN Null ELSE users[u]])
    /\ UNCHANGED <<rates, tiers, fees, users, bookings, nextId, pricedBy, resp>>

\* The UPDATE an existing user's changed attributes give at the flush: the
\* attributes that differ from the row as loaded are written over the row as
\* it is now.
WriteChanged(current, loaded, refreshed) ==
    [k \in DOMAIN current |->
        IF refreshed[k] # loaded[k] THEN refreshed[k] ELSE current[k]]

\* POST /bookings in session s from the end of the lookups to its return.
CompleteCreate(s) ==
    /\ resp = Idle
    /\ s \in DOMAIN sessions
    /\ nextId.booking <= MaxBookings
    /\ nextId.user <= MaxUsers
    /\ LET payload == sessions[s].payload
           email == Strip(GetStr(payload, "contact_email"))
           phone == Strip(GetStr(payload, "contact_phone"))
           u == sessions[s].found
       IN  PersistBooking(payload,
               IF u = Null
               THEN CreateGuest(users, nextId.user, email, phone,
                                payload.contact_first_name,
                                payload.contact_last_name)
               ELSE {[ok |-> TRUE, id |-> u,
                      users |-> [users EXCEPT ![u] =
                                    WriteChanged(@, sessions[s].loaded,
                                        RefreshUser(sessions[s].loaded, email, phone,
                                                    payload.contact_first_name,
                                                    payload.contact_last_name))]]})
    /\ sessions' = Without(sessions, {s})
    /\ UNCHANGED <<rates, tiers, fees>>

ContactKeys ==
    {"contact_first_name", "contact_last_name", "contact_email", "contact_phone"}

LocationsEditedUnlessFeeGiven(payload) ==
    /\ {"pickup_location_id", "dropoff_location_id"} \cap DOMAIN payload # {}
    /\ "one_way_fee" \notin DOMAIN payload

\* 'pickup_location_id' in payload or 'dropoff_location_id' in payload
LocationsEdited(payload) ==
    {"pickup_location_id", "dropoff_location_id"} \cap DOMAIN payload # {}

RecomputeAllOnUpdate(F, obj, payload) ==
    IF /\ LocationsEdited(payload)
       /\ Truthy(obj.pickup_location_id)
       /\ Truthy(obj.dropoff_location_id)
    THEN {[obj EXCEPT !.one_way_fee = ow, !.delivery_fee = df] :
             ow \in CalculateOneWayFee(F, obj.pickup_location_id,
                                       obj.dropoff_location_id),
             df \in CalculateDeliveryFee(F, obj.vehicle_id, obj.pickup_location_id)}
    ELSE {obj}

\* "Recalculate one-way fee if locations changed": the rows the block of
\* update_booking and partial_update_booking can leave.
RecomputeOnUpdate(F, obj, payload) ==
    IF /\ LocationsEdited(payload)
       /\ Truthy(obj.pickup_location_id)
       /\ Truthy(obj.dropoff_location_id)
    THEN {[obj EXCEPT !.one_way_fee = ow] :
             ow \in CalculateOneWayFee(F, obj.pickup_location_id,
                                       obj.dropoff_location_id)}
    ELSE {obj}

\* The body shared by update_booking and partial_update_booking.  A datetime
\* string in the payload reaches the column as it is and the database casts it.
BookingUpdate(op, id, payload) ==
    /\ resp = Idle
    /\ LET Answer(code) ==
               resp' = [op |-> op, req |-> payload, status |-> code,
                        body |-> [NoBody EXCEPT !.id = id]]
           Reject(code) == Answer(code) /\ UNCHANGED <<bookings, pricedBy>>
       IN  IF id \notin DOMAIN bookings THEN Reject(404)
           ELSE IF /\ DOMAIN payload \cap ContactKeys # {}
                   /\ ContactStripRaises(payload)
           THEN Reject(500)
           ELSE IF /\ DOMAIN payload \cap ContactKeys # {}
                   /\ ~ValidateContactPayload(payload, FALSE)
           THEN Reject(400)
           ELSE LET pick == IF "pickup_datetime" \in DOMAIN payload
                            THEN ParseDatetime(payload.pickup_datetime)
                            ELSE <<TRUE, bookings[id].pickup_datetime>>
                    drop == IF "dropoff_datetime" \in DOMAIN payload
                            THEN ParseDatetime(payload.dropoff_datetime)
                            ELSE <<TRUE, bookings[id].dropoff_datetime>>
                    obj == [ApplyUpdates(bookings[id], payload)
                               EXCEPT !.pickup_datetime = pick[2],
                                      !.dropoff_datetime = drop[2]]
                IN  IF ~pick[1] \/ ~drop[1] THEN Reject(500)
                    ELSE \E new \in RecomputeOnUpdate(fees, obj, payload) :
                               IF /\ BookingConstraints(new, users)
                                  /\ new.one_way_fee # Null
                                  /\ new.delivery_fee # Null
                                  /\ new.total_amount # Null
                               THEN /\ bookings' = [bookings EXCEPT ![id] = new]
                                    /\ pricedBy' =
                                          IF "price_per_day" \in DOMAIN payload
                                          THEN [pricedBy EXCEPT ![id] = "payload"]
                                          ELSE pricedBy
                                    /\ Answer(200)
                               ELSE Reject(400)
    /\ UNCHANGED <<rates, tiers, fees, users, nextId, sessions>>

\* PUT /bookings/{item_id}
UpdateBooking(id, payload) == BookingUpdate("update_booking", id, payload)

\* PATCH /bookings/{item_id}
PartialUpdateBooking(id, payload) ==
    BookingUpdate("partial_update_booking", id, payload)

(***************************************************************************)
(* Specification of the resolver: any small rate catalog, then calls of    *)
(* the two implementations.  The catalogs are of two kinds: several rates  *)
(* that differ in window and status, each with plain tiers; and one rate   *)
(* with tiers that differ in group and day range.                          *)
(***************************************************************************)
BaseRate ==
    [valid_from |-> 1, valid_until |-> 2, min_days |-> 1, max_days |-> Null,
     is_active |-> TRUE, parent_rate_id |-> Null, increment_value |-> Null,
     price_modifier_value |-> Null]

RateChoices ==
    {BaseRate, [BaseRate EXCEPT !.is_active = FALSE],
     [BaseRate EXCEPT !.valid_from = 2], [BaseRate EXCEPT !.valid_until = 1],
     [BaseRate EXCEPT !.min_days = 2], [BaseRate EXCEPT !.max_days = 2]}

StatusAndStartChoices ==
    {BaseRate, [BaseRate EXCEPT !.is_active = FALSE],
     [BaseRate EXCEPT !.valid_from = 2]}

BaseTier ==
    [rate_id |-> 1, vehicle_group_id |-> 1, from_days |-> 1, to_days |-> Null,
     price_per_day |-> 36]

PlainTierChoices(rateIds) ==
    {[t EXCEPT !.rate_id = r] :
        r \in rateIds,
        t \in {BaseTier, [BaseTier EXCEPT !.vehicle_group_id = 2]}}

TierChoices(rateIds) ==
    {[t EXCEPT !.rate_id = r] :
        r \in rateIds,
        t \in {BaseTier, [BaseTier EXCEPT !.vehicle_group_id = 2],
               [BaseTier EXCEPT !.from_days = 2],
               [BaseTier EXCEPT !.to_days = 2],
               [BaseTier EXCEPT !.from_days = 2, !.to_days = 2,
                                !.price_per_day = 35]}}

Tables(ids, rows) == UNION {[d -> rows] : d \in SUBSET ids}

NoRows == <<>>

InitResolver ==
    /\ \/ /\ rates \in Tables(1..MaxRates, StatusAndStartChoices)
          /\ tiers \in Tables(1..MaxTiers, PlainTierChoices(DOMAIN rates))
       \/ /\ rates \in Tables({1}, RateChoices)
          /\ tiers \in Tables(1..MaxTiers, TierChoices(DOMAIN rates))
    /\ fees = NoRows
    /\ users = NoRows
    /\ bookings = NoRows
    /\ pricedBy = NoRows
    /\ sessions = NoRows
    /\ nextId = [rate |-> MaxRates + 1, tier |-> MaxTiers + 1, fee |-> 1,
                 user |-> 1, booking |-> 1]
    /\ resp = Idle

PickupTicks == {t \in Ticks : DateOf(t) \in {1, 2}}

NextResolver ==
    \/ /\ resp = Idle
       /\ \E v \in {1, 2}, p \in PickupTicks, k \in 1..MaxRentalDays :
             CalculatePrice(v, Iso(p), Iso(p + k * TicksPerDay), Null, Null)
    \/ /\ resp = Idle
       /\ \E v \in {1, 2}, p \in PickupTicks, k \in 1..MaxRentalDays :
             RateForBooking(v, p, p + k * TicksPerDay)
    \/ Deliver

SpecResolver == InitResolver /\ [][NextResolver]_vars

(***************************************************************************)
(* Specification of the rental window and the fallback chain: an almost    *)
(* empty catalog, every vehicle, every window, every kind of date string.  *)
(***************************************************************************)
InitWindow ==
    /\ rates \in Tables({1}, RateChoices)
    /\ tiers \in Tables({1}, TierChoices(DOMAIN rates))
    /\ fees = NoRows
    /\ users = NoRows
    /\ bookings = NoRows
    /\ pricedBy = NoRows
    /\ sessions = NoRows
    /\ nextId = [rate |-> MaxRates + 1, tier |-> MaxTiers + 1, fee |-> 1,
                 user |-> 1, booking |-> 1]
    /\ resp = Idle

DateStrings == [fmt : {"iso", "isoz", "isoish", "bad"}, tick : Ticks]

NextWindow ==
    \/ /\ resp = Idle
       /\ \E v \in DOMAIN Vehicles \cup {NoVehicle}, ps \in DateStrings,
             ds \in DateStrings :
             CalculatePrice(v, ps, ds, Null, Null)
    \/ /\ resp = Idle
       /\ \E v \in DOMAIN Vehicles \cup {NoVehicle}, p \in Ticks, d \in Ticks :
             RateForBooking(v, p, d)
    \/ Deliver

SpecWindow == InitWindow /\ [][NextWindow]_vars

(***************************************************************************)
(* Specification of the fee calculator: any small fee table that the       *)
(* UNIQUE (from_city, to_city) constraint admits, one rate with one tier,  *)
(* then calls of the fee lookups and of the quote.                         *)
(***************************************************************************)
CityAb == <<"a", "b">>
CityAB == <<"A", "B">>
CityB == <<"b">>
CityA == <<"a">>
CityPattern == <<"a", "_">>

FeeChoices ==
    {[from_city |-> CityAb, to_city |-> CityB, fee_amount |-> 25, is_active |-> TRUE],
     [from_city |-> CityAb, to_city |-> CityB, fee_amount |-> 25, is_active |-> FALSE],
     [from_city |-> CityB, to_city |-> CityAb, fee_amount |-> 10, is_active |-> TRUE],
     [from_city |-> CityAB, to_city |-> CityB, fee_amount |-> 15, is_active |-> TRUE],
     [from_city |-> CityAb, to_city |-> CityAb, fee_amount |-> 5, is_active |-> TRUE]}

InitFees ==
    /\ rates = (1 :> BaseRate)
    /\ tiers = (1 :> BaseTier)
    /\ fees \in {F \in Tables(1..MaxFees, FeeChoices) : UniqueCities(F)}
    /\ users = NoRows
    /\ bookings = NoRows
    /\ pricedBy = NoRows
    /\ sessions = NoRows
    /\ nextId = [rate |-> 2, tier |-> 2, fee |-> MaxFees + 1,
                 user |-> 1, booking |-> 1]
    /\ resp = Idle

QueryCities == {CityAb, CityAB, CityB, CityA, CityPattern}

LocationIds == DOMAIN Locations \cup {NoLocation}

NextFees ==
    \/ /\ resp = Idle
       /\ \E from_city \in QueryCities, to_city \in QueryCities :
             CalculateOneWayFeeEndpoint(from_city, to_city)
    \/ /\ resp = Idle
       /\ \E pl \in LocationIds, dl \in LocationIds : OneWayFeeForBooking(pl, dl)
    \/ /\ resp = Idle
       /\ \E v \in DOMAIN Vehicles \cup {NoVehicle}, pl \in LocationIds :
             DeliveryFeeForBooking(v, pl)
    \/ /\ resp = Idle
       /\ \E v \in {1, 2, 4, NoVehicle}, k \in 1..MaxRentalDays,
             pl \in LocationIds \cup {Null}, dl \in LocationIds \cup {Null} :
             CalculatePrice(v, Iso(TicksPerDay), Iso(TicksPerDay + k * TicksPerDay),
                            pl, dl)
    \/ Deliver

SpecFees == InitFees /\ [][NextFees]_vars

(***************************************************************************)
(* Specification of booking creation: create_booking over a fixed catalog, *)
(* with and without each part of the payload.                              *)
(***************************************************************************)
InitCreate ==
    /\ rates \in Tables({1}, StatusAndStartChoices)
    /\ tiers \in Tables({1}, PlainTierChoices({1}))
    /\ fees \in {F \in Tables(1..MaxFees, FeeChoices) : UniqueCities(F)}
    /\ users = NoRows
    /\ bookings = NoRows
    /\ pricedBy = NoRows
    /\ sessions = NoRows
    /\ nextId = [rate |-> 2, tier |-> 2, fee |-> MaxFees + 1,
                 user |-> MaxUsers, booking |-> MaxBookings]
    /\ resp = Idle

ContactParts ==
    {[contact_first_name |-> "Ann", contact_last_name |-> "Lee",
      contact_email |-> "a@x.io"],
     [contact_first_name |-> " ", contact_last_name |-> "Lee"]}

VehicleParts == {NoRows} \cup {[vehicle_id |-> v] : v \in {1, 2, 4, NoVehicle}}

WindowParts ==
    {NoRows,
     [pickup_datetime |-> Iso(TicksPerDay),
      dropoff_datetime |-> [fmt |-> "bad", tick |-> 0]]}
    \cup {[pickup_datetime |-> Iso(TicksPerDay),
           dropoff_datetime |-> Iso(TicksPerDay + k * TicksPerDay)]
             : k \in 1..MaxRentalDays}

LocationParts ==
    {NoRows} \cup {[pickup_location_id |-> pl, dropoff_location_id |-> dl]
                     : pl \in {1, 3, NoLocation}, dl \in {1, 3, NoLocation}}

SuppliedPrice == 99

SuppliedPriceParts ==
    {NoRows,
     [rate_id |-> 1, rate_tier_id |-> 1, price_per_day |-> SuppliedPrice,
      one_way_fee |-> SuppliedPrice, delivery_fee |-> SuppliedPrice,
      total_amount |-> SuppliedPrice]}

CreatePayloads ==
    {c @@ v @@ w @@ l @@ s : c \in ContactParts, v \in VehicleParts,
                             w \in WindowParts, l \in LocationParts,
                             s \in SuppliedPriceParts}

NextCreate ==
    \/ /\ resp = Idle
       /\ \E payload \in CreatePayloads : CreateBooking(payload)
    \/ Deliver

SpecCreate == InitCreate /\ [][NextCreate]_vars

(***************************************************************************)
(* Specification of quoting and booking: calculate_price and create_booking *)
(* are called for the same vehicles, windows and locations over catalogs   *)
(* whose tiers depend on the rental days and whose fee rows may match the  *)
(* same pair of cities.                                                    *)
(***************************************************************************)
QuoteTierChoices ==
    {BaseTier, [BaseTier EXCEPT !.vehicle_group_id = 2],
     [BaseTier EXCEPT !.from_days = 2, !.price_per_day = 35]}

QuoteFeeTables ==
    {NoRows,
     (1 :> [from_city |-> CityAb, to_city |-> CityB, fee_amount |-> 25,
            is_active |-> TRUE]) @@
     (2 :> [from_city |-> CityB, to_city |-> CityAb, fee_amount |-> 10,
            is_active |-> TRUE]),
     (1 :> [from_city |-> CityAb, to_city |-> CityB, fee_amount |-> 25,
            is_active |-> TRUE]) @@
     (2 :> [from_city |-> CityAB, to_city |-> CityB, fee_amount |-> 15,
            is_active |-> TRUE])}

InitQuote ==
    /\ rates \in Tables({1}, StatusAndStartChoices)
    /\ tiers \in Tables(1..MaxTiers, QuoteTierChoices)
    /\ \A t \in DOMAIN tiers : tiers[t].rate_id \in DOMAIN rates
    /\ fees \in QuoteFeeTables
    /\ users = NoRows
    /\ bookings = NoRows
    /\ pricedBy = NoRows
    /\ sessions = NoRows
    /\ nextId = [rate |-> 2, tier |-> MaxTiers + 1, fee |-> 3,
                 user |-> MaxUsers, booking |-> MaxBookings]
    /\ resp = Idle

QuoteVehicles == {1, 2, 3}

\* Pickup at noon of day 1; dropoff one day, a day and a half, and two days
\* and a half later.
QuoteWindows ==
    {<<Iso(TicksPerDay + 1), Iso(TicksPerDay + 1 + k)>>
        : k \in {TicksPerDay, 2 * TicksPerDay - 1, 3 * TicksPerDay - 1}}

QuoteLocations == {<<1, 3>>, <<3, 1>>, <<1, 2>>}

NextQuote ==
    \/ /\ resp = Idle
       /\ \E v \in QuoteVehicles, w \in QuoteWindows, l \in QuoteLocations :
             CalculatePrice(v, w[1], w[2], l[1], l[2])
    \/ /\ resp = Idle
       /\ \E v \in QuoteVehicles, w \in QuoteWindows, l \in QuoteLocations :
             CreateBooking([contact_first_name |-> "Ann",
                            contact_last_name |-> "Lee",
                            contact_email |-> "a@x.io",
                            vehicle_id |-> v,
                            pickup_datetime |-> w[1], dropoff_datetime |-> w[2],
                            pickup_location_id |-> l[1],
                            dropoff_location_id |-> l[2]])
    \/ Deliver

SpecQuote == InitQuote /\ [][NextQuote]_vars

(***************************************************************************)
(* Specification of the whole lifecycle: the catalog is created, edited,   *)
(* deactivated and deleted while bookings are created and updated.         *)
(***************************************************************************)
Init ==
    /\ rates = NoRows
    /\ tiers = NoRows
    /\ fees = NoRows
    /\ users = NoRows
    /\ bookings = NoRows
    /\ pricedBy = NoRows
    /\ sessions = NoRows
    /\ nextId = [rate |-> MaxRates - 1, tier |-> MaxTiers, fee |-> MaxFees,
                 user |-> MaxUsers, booking |-> MaxBookings]
    /\ resp = Idle

RatePayloads ==
    {BaseRate} \cup {[BaseRate EXCEPT !.parent_rate_id = p] : p \in DOMAIN rates}

RateEdits == {[is_active |-> FALSE]}

TierPayloads == {[vehicle_group_id |-> 1, from_days |-> 1, price_per_day |-> 36]}

TierEdits == {[price_per_day |-> 35]}

FeeRequests ==
    {[from_city |-> CityAb, to_city |-> CityB, fee_amount |-> 25, is_active |-> TRUE],
     [from_city |-> CityB, to_city |-> CityAb, fee_amount |-> 10, is_active |-> TRUE]}

FeeEdits == {[fee_amount |-> 15], [is_active |-> FALSE]}

BookingPayloads ==
    {[contact_first_name |-> "Ann", contact_last_name |-> "Lee",
      contact_email |-> "a@x.io", vehicle_id |-> 1,
      pickup_datetime |-> Iso(TicksPerDay),
      dropoff_datetime |-> Iso(2 * TicksPerDay),
      pickup_location_id |-> 3, dropoff_location_id |-> 1,
      total_amount |-> SuppliedPrice]}

BookingEdits == {[dropoff_location_id |-> 3], [total_amount |-> 120]}

Next ==
    \/ /\ resp = Idle
       /\ \E payload \in RatePayloads : CreateRate(payload)
    \/ /\ resp = Idle
       /\ \E id \in DOMAIN rates, payload \in RateEdits : UpdateRate(id, payload)
    \/ /\ resp = Idle
       /\ \E id \in DOMAIN rates : DeleteRate(id)
    \/ /\ resp = Idle
       /\ \E rate_id \in 1..MaxRates, payload \in TierPayloads :
             CreateRateTier(rate_id, payload)
    \/ /\ resp = Idle
       /\ \E id \in DOMAIN tiers, payload \in TierEdits : UpdateRateTier(id, payload)
    \/ /\ resp = Idle
       /\ \E id \in DOMAIN tiers : DeleteRateTier(id)
    \/ /\ resp = Idle
       /\ \E request \in FeeRequests : CreateOneWayFee(request)
    \/ /\ resp = Idle
       /\ \E id \in DOMAIN fees, request \in FeeEdits : UpdateOneWayFee(id, request)
    \/ /\ resp = Idle
       /\ \E id \in DOMAIN fees : DeleteOneWayFee(id)
    \/ /\ resp = Idle
       /\ \E payload \in BookingPayloads : CreateBooking(payload)
    \/ /\ resp = Idle
       /\ \E id \in DOMAIN bookings, payload \in BookingEdits :
             UpdateBooking(id, payload)
    \/ /\ resp = Idle
       /\ \E id \in DOMAIN bookings, payload \in BookingEdits :
             PartialUpdateBooking(id, payload)
    \/ Deliver

Spec == Init /\ [][Next]_vars

(***************************************************************************)
(* Specification of booking updates: one booking is created on a fixed     *)
(* rate catalog and then edited through PUT and PATCH.                     *)
(***************************************************************************)
UpdateFeeChoices ==
    {c \in FeeChoices : c.is_active /\ c.from_city # CityAB /\ c.from_city # c.to_city}
    \cup {[from_city |-> CityAb, to_city |-> CityB, fee_amount |-> 15,
           is_active |-> TRUE]}

InitUpdate ==
    /\ rates = (1 :> BaseRate)
    /\ tiers = (1 :> BaseTier)
    /\ fees \in {F \in Tables(1..MaxFees, UpdateFeeChoices) : UniqueCities(F)}
    /\ users = NoRows
    /\ bookings = NoRows
    /\ pricedBy = NoRows
    /\ sessions = NoRows
    /\ nextId = [rate |-> 2, tier |-> 2, fee |-> MaxFees + 1,
                 user |-> MaxUsers, booking |-> MaxBookings]
    /\ resp = Idle

UpdateSeedPayloads ==
    {[contact_first_name |-> "Ann", contact_last_name |-> "Lee",
      contact_email |-> "a@x.io", vehicle_id |-> 1,
      pickup_datetime |-> Iso(TicksPerDay),
      dropoff_datetime |-> Iso(2 * TicksPerDay),
      pickup_location_id |-> 3, dropoff_location_id |-> 1]}

UpdateEdits ==
    {[pickup_location_id |-> 1],
     [dropoff_location_id |-> 3],
     [pickup_location_id |-> 1, dropoff_location_id |-> 3,
      one_way_fee |-> SuppliedPrice],
     [dropoff_location_id |-> NoLocation],
     [vehicle_id |-> 2],
     [pickup_datetime |-> Iso(TicksPerDay),
      dropoff_datetime |-> Iso(TicksPerDay + MaxRentalDays * TicksPerDay)],
     [price_per_day |-> SuppliedPrice],
     [one_way_fee |-> SuppliedPrice],
     [contact_email |-> "bad"]}

NextUpdate ==
    \/ /\ resp = Idle
       /\ \E payload \in UpdateSeedPayloads : CreateBooking(payload)
    \/ /\ resp = Idle
       /\ \E id \in DOMAIN bookings \cup {MaxBookings + 1},
             payload \in UpdateEdits : UpdateBooking(id, payload)
    \/ /\ resp = Idle
       /\ \E id \in DOMAIN bookings \cup {MaxBookings + 1},
             payload \in UpdateEdits : PartialUpdateBooking(id, payload)
    \/ Deliver

SpecUpdate == InitUpdate /\ [][NextUpdate]_vars

(***************************************************************************)
(* Specification of booking updates after fee edits: a booking is created  *)
(* with a one-way fee from the Fee Table, the fee row is edited or deleted *)
(* and the booking is updated with payloads that name its locations or     *)
(* leave them out.                                                         *)
(***************************************************************************)
InitRefresh ==
    /\ rates = (1 :> BaseRate)
    /\ tiers = (1 :> BaseTier)
    /\ fees = (1 :> [from_city |-> CityB, to_city |-> CityAb, fee_amount |-> 10,
                     is_active |-> TRUE])
    /\ users = NoRows
    /\ bookings = NoRows
    /\ pricedBy = NoRows
    /\ sessions = NoRows
    /\ nextId = [rate |-> 2, tier |-> 2, fee |-> 2,
                 user |-> MaxUsers, booking |-> MaxBookings]
    /\ resp = Idle

RefreshFeeEdits == {[fee_amount |-> 15], [is_active |-> FALSE]}

RefreshEdits ==
    {[pickup_location_id |-> 3],
     [dropoff_location_id |-> 1],
     [pickup_location_id |-> 3, dropoff_location_id |-> 1],
     [dropoff_location_id |-> 3],
     [price_per_day |-> SuppliedPrice],
     [contact_first_name |-> "Bob", contact_last_name |-> "Lee",
      contact_email |-> "a@x.io"]}

NextRefresh ==
    \/ /\ resp = Idle
       /\ \E payload \in UpdateSeedPayloads : CreateBooking(payload)
    \/ /\ resp = Idle
       /\ \E id \in 1..2, request \in RefreshFeeEdits : UpdateOneWayFee(id, request)
    \/ /\ resp = Idle
       /\ \E id \in 1..2 : DeleteOneWayFee(id)
    \/ /\ resp = Idle
       /\ \E id \in DOMAIN bookings \cup {MaxBookings + 1},
             payload \in RefreshEdits : UpdateBooking(id, payload)
    \/ /\ resp = Idle
       /\ \E id \in DOMAIN bookings \cup {MaxBookings + 1},
             payload \in RefreshEdits : PartialUpdateBooking(id, payload)
    \/ Deliver

SpecRefresh == InitRefresh /\ [][NextRefresh]_vars

(***************************************************************************)
(* Specification of guest users: create_booking on a User table that       *)
(* already holds guests, with every kind of contact and with requests that *)
(* fail after the user was resolved.                                       *)
(***************************************************************************)
UserChoices ==
    {[first_name |-> "Ann", last_name |-> "Lee", email |-> "a@x.io", phone |-> "+1"],
     [first_name |-> "Bob", last_name |-> "Lee", email |-> "b@x.io", phone |-> "+1"],
     [first_name |-> "Bob", last_name |-> "Lee", email |-> "b@x.io", phone |-> "+2"],
     [first_name |-> "Ann", last_name |-> "Lee",
      email |-> "guest_1@tbilisicars.local", phone |-> "1"]}

InitGuests ==
    /\ rates = (1 :> BaseRate)
    /\ tiers = (1 :> BaseTier)
    /\ fees = NoRows
    /\ users \in {U \in Tables(1..(MaxUsers - 1), UserChoices) : UniqueEmails(U)}
    /\ bookings = NoRows
    /\ pricedBy = NoRows
    /\ sessions = NoRows
    /\ nextId = [rate |-> 2, tier |-> 2, fee |-> 1,
                 user |-> MaxUsers, booking |-> MaxBookings]
    /\ resp = Idle

NameParts ==
    {[contact_first_name |-> f, contact_last_name |-> "Lee"] : f \in {"Ann", " ", JsonNull}}
    \cup {[contact_first_name |-> "Ann"]}

EmailParts ==
    {NoRows} \cup {[contact_email |-> e] : e \in {"a@x.io", "b@x.io", "bad", JsonNull}}

PhoneParts == {NoRows} \cup {[contact_phone |-> p] : p \in {"+1", "+2"}}

GuestBookingParts ==
    {[vehicle_id |-> 1, pickup_location_id |-> 1, dropoff_location_id |-> dl,
      pickup_datetime |-> Iso(TicksPerDay), dropoff_datetime |-> ds]
        : dl \in {3, NoLocation},
          ds \in {Iso(2 * TicksPerDay),
                  [fmt |-> "isoz", tick |-> 2 * TicksPerDay],
                  [fmt |-> "bad", tick |-> 0]}}

GuestPayloads ==
    {n @@ e @@ p @@ b : n \in NameParts, e \in EmailParts, p \in PhoneParts,
                        b \in GuestBookingParts}

NextGuests ==
    \/ /\ resp = Idle
       /\ \E payload \in GuestPayloads : CreateBooking(payload)
    \/ Deliver

SpecGuests == InitGuests /\ [][NextGuests]_vars

(***************************************************************************)
(* Specification of the Fee Table's administration: fees are created,      *)
(* renamed, edited and deleted, and looked up in between.                  *)
(***************************************************************************)
InitFeeAdmin ==
    /\ rates = NoRows
    /\ tiers = NoRows
    /\ fees = NoRows
    /\ users = NoRows
    /\ bookings = NoRows
    /\ pricedBy = NoRows
    /\ sessions = NoRows
    /\ nextId = [rate |-> 1, tier |-> 1, fee |-> 1, user |-> 1, booking |-> 1]
    /\ resp = Idle

AdminCities == {CityAb, CityAB, CityB}

FeeAdminRequests ==
    {[from_city |-> f, to_city |-> t, fee_amount |-> 25, is_active |-> TRUE]
        : f \in AdminCities, t \in AdminCities}

FeeAdminEdits ==
    {[from_city |-> f] : f \in AdminCities}
    \cup {[to_city |-> t] : t \in AdminCities}
    \cup {[from_city |-> f, to_city |-> t] : f \in AdminCities, t \in AdminCities}
    \cup {[fee_amount |-> 15], [is_active |-> FALSE]}

NextFeeAdmin ==
    \/ /\ resp = Idle
       /\ \E request \in FeeAdminRequests : CreateOneWayFee(request)
    \/ /\ resp = Idle
       /\ \E id \in 1..(MaxFees + 1), request \in FeeAdminEdits :
             UpdateOneWayFee(id, request)
    \/ /\ resp = Idle
       /\ \E id \in 1..(MaxFees + 1) : DeleteOneWayFee(id)
    \/ /\ resp = Idle
       /\ \E from_city \in AdminCities, to_city \in AdminCities :
             CalculateOneWayFeeEndpoint(from_city, to_city)
    \/ Deliver

SpecFeeAdmin == InitFeeAdmin /\ [][NextFeeAdmin]_vars

(***************************************************************************)
(* Specification of the catalog's administration: rates and tiers are      *)
(* created, edited, re-parented, moved and deleted, starting from a catalog *)
(* whose earlier rows have all been deleted.                               *)
(***************************************************************************)
InitRateAdmin ==
    /\ rates = NoRows
    /\ tiers = NoRows
    /\ fees = NoRows
    /\ users = NoRows
    /\ bookings = NoRows
    /\ pricedBy = NoRows
    /\ sessions = NoRows
    /\ nextId = [rate |-> MaxRates - 1, tier |-> MaxTiers - 1, fee |-> 1,
                 user |-> 1, booking |-> 1]
    /\ resp = Idle

AdminRateIds == (MaxRates - 1)..(MaxRates + 1)

RateAdminPayloads ==
    {BaseRate, [BaseRate EXCEPT !.min_days = 0],
     [valid_from |-> 1, valid_until |-> 2, min_days |-> MaxRentalDays]}
    \cup {[BaseRate EXCEPT !.parent_rate_id = p] : p \in AdminRateIds}

RateAdminEdits == {[is_active |-> FALSE], [valid_until |-> 0], [max_days |-> 0]}

TierAdminPayloads == {[vehicle_group_id |-> 1, from_days |-> 1, price_per_day |-> 36]}

TierAdminEdits ==
    {[price_per_day |-> 35]} \cup {[rate_id |-> r] : r \in AdminRateIds}

NextRateAdmin ==
    \/ /\ resp = Idle
       /\ \E payload \in RateAdminPayloads : CreateRate(payload)
    \/ /\ resp = Idle
       /\ \E id \in DOMAIN rates, payload \in RateAdminEdits : UpdateRate(id, payload)
    \/ /\ resp = Idle
       /\ \E id \in DOMAIN rates : DeleteRate(id)
    \/ /\ resp = Idle
       /\ \E rate_id \in AdminRateIds, payload \in TierAdminPayloads :
             CreateRateTier(rate_id, payload)
    \/ /\ resp = Idle
       /\ \E id \in DOMAIN tiers, payload \in TierAdminEdits :
             UpdateRateTier(id, payload)
    \/ /\ resp = Idle
       /\ \E id \in DOMAIN tiers : DeleteRateTier(id)

SpecRateAdmin == InitRateAdmin /\ [][NextRateAdmin]_vars

(***************************************************************************)
(* Specification of parent rates: catalogs whose rates name parents,       *)
(* increments and price modifiers, each rate with one tier of its own      *)
(* price, and calls of the resolver.                                       *)
(***************************************************************************)
IncrementAmount == 10

ParentChoices(ids) ==
    {[BaseRate EXCEPT !.parent_rate_id = p, !.increment_value = m[1],
                      !.price_modifier_value = m[2]] :
        p \in ids \cup {Null},
        m \in {<<Null, Null>>, <<IncrementAmount, Null>>, <<Null, IncrementAmount>>}}

InitParents ==
    /\ rates \in {R \in Tables(1..MaxRates, ParentChoices(1..MaxRates)) :
                    \A r \in DOMAIN R :
                        R[r].parent_rate_id \in (DOMAIN R \ {r}) \cup {Null}}
    /\ tiers = [r \in DOMAIN rates |->
                   [BaseTier EXCEPT !.rate_id = r, !.price_per_day = 35 + r]]
    /\ fees = NoRows
    /\ users = NoRows
    /\ bookings = NoRows
    /\ pricedBy = NoRows
    /\ sessions = NoRows
    /\ nextId = [rate |-> MaxRates + 1, tier |-> MaxRates + 1, fee |-> 1,
                 user |-> 1, booking |-> 1]
    /\ resp = Idle

NextParents ==
    \/ /\ resp = Idle
       /\ \E v \in {1, 2}, k \in 1..MaxRentalDays :
             CalculatePrice(v, Iso(TicksPerDay), Iso(TicksPerDay + k * TicksPerDay),
                            Null, Null)
    \/ /\ resp = Idle
       /\ \E v \in {1, 2}, k \in 1..MaxRentalDays :
             RateForBooking(v, TicksPerDay, TicksPerDay + k * TicksPerDay)
    \/ Deliver

SpecParents == InitParents /\ [][NextParents]_vars

(***************************************************************************)
(* Specification of concurrent bookings: two sessions run create_booking   *)
(* for the same vehicle and overlapping windows; each does its user        *)
(* lookups and, at any later moment, the rest of the handler.              *)
(***************************************************************************)
Sessions == {"s1", "s2"}

InitConcurrent ==
    /\ rates = (1 :> BaseRate)
    /\ tiers = (1 :> BaseTier)
    /\ fees = NoRows
    /\ users \in {NoRows,
                  1 :> [first_name |-> "Ann", last_name |-> "Lee",
                        email |-> "a@x.io", phone |-> "+1"]}
    /\ bookings = NoRows
    /\ pricedBy = NoRows
    /\ sessions = NoRows
    /\ nextId = [rate |-> 2, tier |-> 2, fee |-> 1,
                 user |-> MaxUsers - 1, booking |-> MaxBookings - 1]
    /\ resp = Idle

ConcurrentContacts ==
    {[contact_first_name |-> "Ann", contact_last_name |-> "Lee",
      contact_email |-> "a@x.io"],
     [contact_first_name |-> "Bob", contact_last_name |-> "Lee",
      contact_email |-> "b@x.io"],
     [contact_first_name |-> "Bob", contact_last_name |-> "Lee",
      contact_phone |-> "+1"]}

ConcurrentWindows ==
    {[pickup_datetime |-> Iso(TicksPerDay),
      dropoff_datetime |-> Iso(TicksPerDay + MaxRentalDays * TicksPerDay)],
     [pickup_datetime |-> Iso(2 * TicksPerDay),
      dropoff_datetime |-> Iso(3 * TicksPerDay)]}

ConcurrentPayloads ==
    {c @@ w @@ [vehicle_id |-> 1, pickup_location_id |-> 1, dropoff_location_id |-> 3]
        : c \in ConcurrentContacts, w \in ConcurrentWindows}

NextConcurrent ==
    \/ /\ resp = Idle
       /\ \E s \in Sessions, payload \in ConcurrentPayloads : ResolveGuest(s, payload)
    \/ /\ resp = Idle
       /\ \E s \in Sessions : CompleteCreate(s)
    \/ Deliver

SpecConcurrent == InitConcurrent /\ [][NextConcurrent]_vars

(***************************************************************************)
(* Properties of the resolver.                                             *)
(***************************************************************************)
Resolved ==
    /\ resp.op \in {"calculate_price", "rate_for_booking"}
    /\ resp.status = 200

\* rental_days as the specification states it: max(1, whole days).
WholeDays(pickup, dropoff) ==
    CHOOSE n \in -(MaxDay + MaxRentalDays + 1) .. (MaxDay + MaxRentalDays + 1) :
        n * TicksPerDay <= dropoff - pickup /\ dropoff - pickup < (n + 1) * TicksPerDay

StatedRentalDays(pickup, dropoff) ==
    IF WholeDays(pickup, dropoff) >= 1 THEN WholeDays(pickup, dropoff) ELSE 1

\* The candidate rates of a priced request, as the specification states them.
IsCandidate(r, day, days) ==
    /\ rates[r].is_active
    /\ rates[r].valid_from <= day /\ day <= rates[r].valid_until
    /\ rates[r].min_days <= days
    /\ (rates[r].max_days = Null \/ rates[r].max_days >= days)

TierFits(t, r, group, days) ==
    /\ tiers[t].rate_id = r
    /\ tiers[t].vehicle_group_id = group
    /\ tiers[t].from_days <= days
    /\ (tiers[t].to_days = Null \/ days <= tiers[t].to_days)

CandidatesWithTier(group, day, days) ==
    {r \in DOMAIN rates :
        IsCandidate(r, day, days)
        /\ \E t \in DOMAIN tiers : TierFits(t, r, group, days)}

RespGroup == Vehicles[resp.req.vehicle_id].vehicle_group_id
RespDay == DateOf(resp.body.pickup)
RespDays == StatedRentalDays(resp.body.pickup, resp.body.dropoff)

\* C1: rate precedence.  Whenever some candidate rate has a tier matching the
\* vehicle's group and the rental days, both implementations return a rate,
\* and it is the candidate-with-a-matching-tier that is greatest in
\* (valid_from, id).
C1_RatePrecedence ==
    (Resolved /\ resp.req.vehicle_id \in DOMAIN Vehicles
              /\ CandidatesWithTier(RespGroup, RespDay, RespDays) # {})
    => /\ resp.body.rate_id \in CandidatesWithTier(RespGroup, RespDay, RespDays)
       /\ \A o \in CandidatesWithTier(RespGroup, RespDay, RespDays) :
             \/ rates[o].valid_from < rates[resp.body.rate_id].valid_from
             \/ /\ rates[o].valid_from = rates[resp.body.rate_id].valid_from
                /\ o <= resp.body.rate_id

\* A later valid_from beat an earlier one although the earlier rate has the
\* higher id.
C1_Witness ==
    /\ Resolved
    /\ resp.body.rate_id # Null
    /\ \E o \in CandidatesWithTier(RespGroup, RespDay, RespDays) :
          /\ o > resp.body.rate_id
          /\ rates[o].valid_from < rates[resp.body.rate_id].valid_from

\* C2: selection soundness.  A returned (rate, tier) pair is an active rate
\* whose window contains the pickup date and whose duration domain contains
\* the rental days, with a tier of that rate and of the vehicle's group whose
\* day range contains the rental days.
C2_SelectionSoundness ==
    (Resolved /\ resp.body.rate_id # Null)
    => /\ resp.body.rate_id \in DOMAIN rates
       /\ resp.body.tier_id \in DOMAIN tiers
       /\ IsCandidate(resp.body.rate_id, RespDay, RespDays)
       /\ TierFits(resp.body.tier_id, resp.body.rate_id, RespGroup, RespDays)
       /\ resp.body.price_per_day = tiers[resp.body.tier_id].price_per_day

\* A tier [2, 2] was selected for a two-day rental while the rate also has
\* its request on the last day of the window.
C2_Witness ==
    /\ Resolved
    /\ resp.body.tier_id # Null
    /\ tiers[resp.body.tier_id].from_days = 2
    /\ tiers[resp.body.tier_id].to_days = 2
    /\ resp.body.rental_days = 2
    /\ RespDay = rates[resp.body.rate_id].valid_until

\* The fallback price as the specification states it.
StatedFallback(v) ==
    IF /\ Vehicles[v].vehicle_group_id # Null
       /\ VehicleGroups[Vehicles[v].vehicle_group_id].base_price_per_day # Null
    THEN VehicleGroups[Vehicles[v].vehicle_group_id].base_price_per_day
    ELSE IF Vehicles[v].starting_price # Null THEN Vehicles[v].starting_price
    ELSE DefaultPrice

\* C3: fallback chain.  When no candidate rate yields a matching tier (or the
\* vehicle has no group) the result is (null, null, p) with p the group's
\* base_price_per_day if the vehicle has a group and the field is set (any
\* set value, 0 included), else the vehicle's starting_price if set, else 50.
C3_FallbackChain ==
    (/\ Resolved
     /\ resp.req.vehicle_id \in DOMAIN Vehicles
     /\ \/ RespGroup = Null
        \/ CandidatesWithTier(RespGroup, RespDay, RespDays) = {})
    => /\ resp.body.rate_id = Null
       /\ resp.body.tier_id = Null
       /\ resp.body.price_per_day = StatedFallback(resp.req.vehicle_id)

\* C4: rental days.  For every pickup and dropoff datetime the rental days
\* are the whole days between them, and 1 when that is less than one day
\* (zero-length and negative windows included), in both implementations.
C4_RentalDays ==
    (Resolved /\ resp.body.rental_days # Null)
    => /\ resp.body.rental_days >= 1
       /\ (resp.body.dropoff - resp.body.pickup < TicksPerDay
              => resp.body.rental_days = 1)
       /\ (resp.body.dropoff - resp.body.pickup >= TicksPerDay
              => /\ resp.body.rental_days * TicksPerDay
                        <= resp.body.dropoff - resp.body.pickup
                 /\ resp.body.dropoff - resp.body.pickup
                        < (resp.body.rental_days + 1) * TicksPerDay)

\* A window that ends more than a day before it starts was priced for one day.
C4_Witness ==
    /\ Resolved
    /\ resp.op = "calculate_price"
    /\ resp.body.rental_days = 1
    /\ resp.body.dropoff - resp.body.pickup <= -TicksPerDay

(***************************************************************************)
(* Properties of the fee calculator.                                       *)
(***************************************************************************)
City(l) == Locations[l].city

\* The fee lookups a response answers: triples <<from city, to city, fee>>
\* for the pairs of existing locations (or city names) it was asked about.
OneWayCase ==
    IF /\ resp.op \in {"one_way_fee", "calculate_price"}
       /\ resp.status = 200
       /\ resp.req.pickup_location_id \in DOMAIN Locations
       /\ resp.req.dropoff_location_id \in DOMAIN Locations
    THEN {<<City(resp.req.pickup_location_id), City(resp.req.dropoff_location_id),
            resp.body.one_way_fee>>}
    ELSE {}

DeliveryCase ==
    IF /\ resp.op \in {"delivery_fee", "calculate_price"}
       /\ resp.status = 200
       /\ resp.req.vehicle_id \in DOMAIN Vehicles
       /\ resp.req.pickup_location_id \in DOMAIN Locations
       /\ Vehicles[resp.req.vehicle_id].location_id \in DOMAIN Locations
    THEN {<<City(Vehicles[resp.req.vehicle_id].location_id),
            City(resp.req.pickup_location_id), resp.body.delivery_fee>>}
    ELSE {}

EndpointCase ==
    IF resp.op = "city_fee"
    THEN {<<resp.req.from_city, resp.req.to_city, resp.body.fee_amount>>}
    ELSE {}

FeeCases == OneWayCase \cup DeliveryCase \cup EndpointCase

\* The active rows for a directed city pair, compared ignoring case.
RowsFor(from_city, to_city) ==
    {f \in DOMAIN fees :
        /\ fees[f].is_active
        /\ Lower(fees[f].from_city) = Lower(from_city)
        /\ Lower(fees[f].to_city) = Lower(to_city)}

\* C5: fee lookup.  For two cities that differ ignoring case the fee is the
\* fee_amount of an active row whose from_city and to_city equal the query's
\* cities ignoring case, and 0 when there is no such row: a reverse, inactive
\* or pattern match never yields a fee.
C5_FeeLookup ==
    \A c \in FeeCases :
        Lower(c[1]) # Lower(c[2])
        => IF RowsFor(c[1], c[2]) = {} THEN c[3] = 0
           ELSE c[3] \in {fees[f].fee_amount : f \in RowsFor(c[1], c[2])}

\* C6: same-city fee.  When the two cities are equal ignoring case, or a
\* location's city is missing, the fee is 0 whatever the fee table holds.
C6_SameCityFee ==
    \A c \in FeeCases :
        (Lower(c[1]) = Lower(c[2]) \/ c[1] = <<>> \/ c[2] = <<>>) => c[3] = 0

\* Two different locations of the same city, in different casing, were
\* priced while an active row for that very city pair exists.
C6_Witness ==
    /\ resp.op \in {"one_way_fee", "calculate_price"}
    /\ \E c \in OneWayCase : c[1] # c[2] /\ Lower(c[1]) = Lower(c[2]) /\ c[3] = 0
    /\ \E f \in DOMAIN fees :
          /\ fees[f].is_active
          /\ ILike(fees[f].from_city, City(resp.req.pickup_location_id))
          /\ ILike(fees[f].to_city, City(resp.req.dropoff_location_id))

\* C7: breakdown arithmetic.  In every response of the quote, base_total is
\* price_per_day * rental_days and total_with_fees is base_total +
\* one_way_fee + delivery_fee.
C7_Breakdown ==
    (resp.op = "calculate_price" /\ resp.status = 200)
    => /\ resp.body.base_total = resp.body.price_per_day * resp.body.rental_days
       /\ resp.body.total_with_fees =
              resp.body.base_total + resp.body.one_way_fee + resp.body.delivery_fee

\* A quote resolved by a rate, over more than one day, with both fees due.
C7_Witness ==
    /\ resp.op = "calculate_price" /\ resp.status = 200
    /\ resp.body.rate_id # Null
    /\ resp.body.rental_days > 1
    /\ resp.body.one_way_fee > 0
    /\ resp.body.delivery_fee > 0

(***************************************************************************)
(* Properties of booking prices.                                           *)
(***************************************************************************)
\* C8: booking creation pricing.  When create_booking persists a booking
\* whose payload has vehicle_id, both datetimes and both location ids, the
\* row's rate_id, rate_tier_id and price_per_day are a result of the resolver,
\* and its delivery_fee and one_way_fee are results of the fee calculators,
\* for that vehicle, window and locations on the catalog of that moment,
\* whatever the payload supplies for those five fields.
C8_CreatePricing ==
    (/\ resp.op = "create_booking" /\ resp.status = 201
     /\ {"vehicle_id", "pickup_datetime", "dropoff_datetime",
         "pickup_location_id", "dropoff_location_id"} \subseteq DOMAIN resp.req)
    => LET b == bookings[resp.body.id]
           p == resp.req
       IN  /\ <<b.rate_id, b.rate_tier_id, b.price_per_day>> \in
                  CalculateRateForBooking(rates, tiers, p.vehicle_id,
                                          p.pickup_datetime.tick,
                                          p.dropoff_datetime.tick)
           /\ b.delivery_fee \in
                  CalculateDeliveryFee(fees, p.vehicle_id, p.pickup_location_id)
           /\ b.one_way_fee \in
                  CalculateOneWayFee(fees, p.pickup_location_id,
                                     p.dropoff_location_id)

\* A booking whose payload supplied all five fields was persisted with a tier
\* price and two fees found in the table.
C8_Witness ==
    /\ resp.op = "create_booking" /\ resp.status = 201
    /\ "price_per_day" \in DOMAIN resp.req
    /\ resp.req.price_per_day = SuppliedPrice
    /\ bookings[resp.body.id].rate_tier_id # Null
    /\ bookings[resp.body.id].price_per_day # SuppliedPrice
    /\ bookings[resp.body.id].delivery_fee \in {10, 25}
    /\ bookings[resp.body.id].one_way_fee \in {10, 25}

PriceSnapshot(b) == <<b.price_per_day, b.one_way_fee, b.delivery_fee, b.total_amount>>

\* C9: price snapshot.  A step that creates, edits, deactivates or deletes a
\* Rate, a RateTier or a OneWayFee keeps every persisted booking and leaves
\* its price_per_day, one_way_fee, delivery_fee and total_amount as they were.
C9_PriceSnapshot ==
    [][(rates' # rates \/ tiers' # tiers \/ fees' # fees)
       => \A b \in DOMAIN bookings :
             /\ b \in DOMAIN bookings'
             /\ PriceSnapshot(bookings'[b]) = PriceSnapshot(bookings[b])]_vars

\* A booking keeps its tier price and its fees after the rates and the fee
\* rows that produced them were deleted.
C9_Witness ==
    /\ rates = NoRows /\ fees = NoRows
    /\ \E b \in DOMAIN bookings :
          /\ pricedBy[b] = "tier"
          /\ bookings[b].price_per_day = 36
          /\ bookings[b].delivery_fee = 25
          /\ bookings[b].total_amount = SuppliedPrice

\* C10: meaning of null rate ids.  A booking has rate_id and rate_tier_id both
\* null only if its price_per_day came from the fallback chain.
C10_NullRateIds ==
    \A b \in DOMAIN bookings :
        (bookings[b].rate_id = Null /\ bookings[b].rate_tier_id = Null)
        => pricedBy[b] = "fallback"

(***************************************************************************)
(* Properties of booking updates.                                          *)
(***************************************************************************)
UpdateOps == {"update_booking", "partial_update_booking"}

PricingFields == {"price_per_day", "rate_id", "rate_tier_id", "delivery_fee"}

Pricing(b) == <<b.price_per_day, b.rate_id, b.rate_tier_id, b.delivery_fee>>

\* C11: update frame.  An update_booking or partial_update_booking call whose
\* payload names none of price_per_day, rate_id, rate_tier_id and delivery_fee
\* leaves these four fields of every booking as they were.
C11_UpdateFrame ==
    [][(/\ resp = Idle
        /\ resp'.op \in UpdateOps
        /\ DOMAIN resp'.req \cap PricingFields = {})
       => \A b \in DOMAIN bookings :
             /\ b \in DOMAIN bookings'
             /\ Pricing(bookings'[b]) = Pricing(bookings[b])]_vars

\* An update moved the booking to another vehicle, for which the resolver
\* and the delivery fee calculator give other values than the stored ones.
C11_Witness ==
    /\ resp.op \in UpdateOps /\ resp.status = 200
    /\ "vehicle_id" \in DOMAIN resp.req
    /\ LET b == bookings[resp.body.id]
       IN  /\ b.vehicle_id = resp.req.vehicle_id
           /\ <<b.rate_id, b.rate_tier_id, b.price_per_day>> \notin
                  CalculateRateForBooking(rates, tiers, b.vehicle_id,
                                          b.pickup_datetime, b.dropoff_datetime)
           /\ b.delivery_fee \notin
                  CalculateDeliveryFee(fees, b.vehicle_id, b.pickup_location_id)

\* C12: update recomputation.  After an update_booking or
\* partial_update_booking call that changed the booking's pickup_location_id
\* or dropoff_location_id, its one_way_fee is a result of the fee calculator
\* for the resulting locations on the Fee Table of that moment.
C12_UpdateRecomputation ==
    [][(/\ resp = Idle
        /\ resp'.op \in UpdateOps
        /\ resp'.status = 200
        /\ \/ bookings'[resp'.body.id].pickup_location_id
                 # bookings[resp'.body.id].pickup_location_id
           \/ bookings'[resp'.body.id].dropoff_location_id
                 # bookings[resp'.body.id].dropoff_location_id)
       => bookings'[resp'.body.id].one_way_fee \in
              CalculateOneWayFee(fees, bookings'[resp'.body.id].pickup_location_id,
                                 bookings'[resp'.body.id].dropoff_location_id)]_vars

\* An update that names a location and supplies a one_way_fee left the fee
\* found in the table, not the supplied one.
C12_Witness ==
    /\ resp.op \in UpdateOps /\ resp.status = 200
    /\ "dropoff_location_id" \in DOMAIN resp.req
    /\ "one_way_fee" \in DOMAIN resp.req
    /\ resp.req.one_way_fee = SuppliedPrice
    /\ bookings[resp.body.id].one_way_fee \in {15, 25}

(***************************************************************************)
(* Properties of guest users and of validation.                            *)
(***************************************************************************)
\* C13: atomic create.  A create_booking request that ends without a
\* persisted booking leaves the User table exactly as it was.
C13_AtomicCreate ==
    [][(/\ resp = Idle
        /\ resp'.op = "create_booking"
        /\ resp'.status # 201)
       => (users' = users /\ bookings' = bookings)]_vars

\* A request failed although its contact passed validation and resolving it
\* would have added a guest user or changed an existing one.
C13_Witness ==
    /\ resp.op = "create_booking" /\ resp.status \in {400, 500}
    /\ ~ContactStripRaises(resp.req)
    /\ ValidateContactPayload(resp.req, TRUE)
    /\ \E f \in FindOrCreateUser(users, nextId.user,
                                 GetStr(resp.req, "contact_email"),
                                 GetStr(resp.req, "contact_phone"),
                                 resp.req.contact_first_name,
                                 resp.req.contact_last_name) :
          f.ok /\ f.users # users

ContactEmail(p) == Strip(GetStr(p, "contact_email"))

ContactPhone(p) == Strip(GetStr(p, "contact_phone"))

UsersWithEmail(U, e) == IF e = "" THEN {} ELSE {u \in DOMAIN U : U[u].email = e}

UsersWithPhone(U, ph) == IF ph = "" THEN {} ELSE {u \in DOMAIN U : U[u].phone = ph}

\* C14: guest identity resolution.  After a successful create_booking without
\* user_id the booking's user is the user that had the contact's email, if
\* there was one; otherwise a user that had the contact's phone, if there was
\* one; otherwise a user that did not exist before, the only one added.  In
\* the first two cases no user is added.
C14_GuestResolution ==
    [][(/\ resp = Idle
        /\ resp'.op = "create_booking"
        /\ resp'.status = 201
        /\ "user_id" \notin DOMAIN resp'.req)
       => LET u == bookings'[resp'.body.id].user_id
              byEmail == UsersWithEmail(users, ContactEmail(resp'.req))
              byPhone == UsersWithPhone(users, ContactPhone(resp'.req))
          IN  IF byEmail # {}
              THEN u \in byEmail /\ DOMAIN users' = DOMAIN users
              ELSE IF byPhone # {}
              THEN u \in byPhone /\ DOMAIN users' = DOMAIN users
              ELSE u \notin DOMAIN users /\ DOMAIN users' = DOMAIN users \cup {u}]_vars

\* A booking went to the user with the contact's email while another user
\* has the contact's phone.
C14_Witness ==
    /\ resp.op = "create_booking" /\ resp.status = 201
    /\ "user_id" \notin DOMAIN resp.req
    /\ ContactEmail(resp.req) # "" /\ ContactPhone(resp.req) # ""
    /\ LET u == bookings[resp.body.id].user_id
       IN  /\ users[u].email = ContactEmail(resp.req)
           /\ \E w \in DOMAIN users \ {u} :
                 /\ users[w].phone = ContactPhone(resp.req)
                 /\ users[w].email # ContactEmail(resp.req)

\* A contact name is missing when the payload lacks it or carries null, and
\* blank when it is empty or white space.
NameMissingOrBlank(p, k) ==
    k \notin DOMAIN p \/ p[k] = JsonNull \/ Strip(p[k]) = ""

EmailMalformed(p) ==
    /\ "contact_email" \in DOMAIN p
    /\ p.contact_email # JsonNull
    /\ ContactEmail(p) # ""
    /\ ~EmailWellFormed(ContactEmail(p))

\* C15: validation before write.  A create_booking request with a missing or
\* blank contact_first_name or contact_last_name, or with a malformed
\* contact_email, gets a 400-class status and changes neither users nor
\* bookings.
C15_ValidationBeforeWrite ==
    [][(/\ resp = Idle
        /\ resp'.op = "create_booking"
        /\ \/ NameMissingOrBlank(resp'.req, "contact_first_name")
           \/ NameMissingOrBlank(resp'.req, "contact_last_name")
           \/ EmailMalformed(resp'.req))
       => /\ resp'.status \in 400..499
          /\ users' = users
          /\ bookings' = bookings]_vars

(***************************************************************************)
(* Properties of the resolver's results and of the quote.                  *)
(***************************************************************************)
ResolverOps == {"rate_for_booking", "calculate_price"}

\* C16: resolver determinism and purity.  For each catalog, overlapping tiers
\* included, the resolver's answer to a request is the only answer it can give
\* to that request on that catalog (rate id, tier id, price per day), and the
\* invocation changes no stored row.
C16_ResolverDeterminism ==
    [][(/\ resp = Idle
        /\ resp'.op \in ResolverOps
        /\ resp'.status = 200)
       => /\ \A r \in CalculateRateForBooking(rates, tiers, resp'.req.vehicle_id,
                                              resp'.body.pickup, resp'.body.dropoff) :
                /\ r[1] = resp'.body.rate_id
                /\ r[3] = resp'.body.price_per_day
                /\ resp'.op = "rate_for_booking" => r[2] = resp'.body.tier_id
          /\ UNCHANGED <<rates, tiers, fees, users, bookings>>]_vars

\* The fee amounts a lookup between two locations can give: a function of the
\* two location ids and the Fee Table alone.
FeesBetween(F, from_location, to_location) ==
    IF /\ from_location \in DOMAIN Locations
       /\ to_location \in DOMAIN Locations
       /\ from_location # to_location
       /\ Locations[from_location].city # <<>>
       /\ Locations[to_location].city # <<>>
       /\ Lower(Locations[from_location].city) # Lower(Locations[to_location].city)
    THEN FeeAmounts(F, Locations[from_location].city, Locations[to_location].city)
    ELSE {0}

\* C17: fees are rate-independent.  In every breakdown of calculate_price the
\* one_way_fee is given by the pickup and dropoff locations and the Fee Table,
\* and the delivery_fee by the vehicle's home location, the pickup location
\* and the Fee Table, whatever the vehicle's group, the rates and the tiers
\* are and whichever of the three branches answers.
C17_FeesRateIndependent ==
    (resp.op = "calculate_price" /\ resp.status = 200)
    => /\ resp.body.one_way_fee
             \in FeesBetween(fees, resp.req.pickup_location_id,
                             resp.req.dropoff_location_id)
       /\ resp.body.delivery_fee
             \in FeesBetween(fees, Vehicles[resp.req.vehicle_id].location_id,
                             resp.req.pickup_location_id)

\* A breakdown without a resolved rate carries both fees.
C17_Witness ==
    /\ resp.op = "calculate_price" /\ resp.status = 200
    /\ resp.body.error # "" /\ resp.body.rate_id = Null
    /\ resp.body.one_way_fee > 0
    /\ resp.body.delivery_fee > 0

(***************************************************************************)
(* Properties of the error outcomes of pricing.                            *)
(***************************************************************************)
\* A date string is parseable when it is an ISO-8601 timestamp (with or
\* without a zone) or a string whose date part is a date.
Parseable(s) == s.fmt \in {"iso", "isoz", "isoish"}

\* C18: no-rate-match is not an error.  For an existing vehicle and a
\* parseable window calculate_price answers 200 with a breakdown; the
\* breakdown carries the error field exactly when no rate was resolved, and
\* then price_per_day is the fallback_price and no rate id is reported.
C18_NoRateMatchNotError ==
    (/\ resp.op = "calculate_price"
     /\ resp.req.vehicle_id \in DOMAIN Vehicles
     /\ Parseable(resp.req.pickup_date)
     /\ Parseable(resp.req.dropoff_date))
    => /\ resp.status = 200
       /\ (resp.body.error # "") <=> (resp.body.rate_id = Null)
       /\ resp.body.error # ""
             => /\ resp.body.price_per_day = resp.body.fallback_price
                /\ resp.body.rate_id = Null

\* C19: malformed rental window.  A calculate_price or create_booking request
\* with a pickup or dropoff string that is neither a timestamp nor a date gets
\* a 400-class status, and no row is written.
C19_MalformedWindow ==
    [][(/\ resp = Idle
        /\ \/ /\ resp'.op = "calculate_price"
              /\ \/ ~Parseable(resp'.req.pickup_date)
                 \/ ~Parseable(resp'.req.dropoff_date)
           \/ /\ resp'.op = "create_booking"
              /\ \/ /\ "pickup_datetime" \in DOMAIN resp'.req
                    /\ ~Parseable(resp'.req.pickup_datetime)
                 \/ /\ "dropoff_datetime" \in DOMAIN resp'.req
                    /\ ~Parseable(resp'.req.dropoff_datetime))
       => /\ resp'.status \in 400..499
          /\ UNCHANGED <<rates, tiers, fees, users, bookings>>]_vars

\* C20: missing vehicle.  A price calculation for a vehicle that does not
\* exist, by calculate_price or by _calculate_rate_for_booking, ends with
\* NotFound and reports no price.
C20_MissingVehicle ==
    (/\ resp.op \in ResolverOps
     /\ resp.req.vehicle_id \notin DOMAIN Vehicles)
    => /\ resp.status = 404
       /\ resp.body.price_per_day = Null

(***************************************************************************)
(* Properties of the Fee Table's administration.                           *)
(***************************************************************************)
FeeWriteOps == {"create_one_way_fee", "update_one_way_fee"}

\* The table a fee request asks for, before any check.
RequestedFees(F, r) ==
    IF r.op = "create_one_way_fee" THEN F @@ (nextId.fee :> r.req)
    ELSE IF r.body.id \in DOMAIN F
    THEN [F EXCEPT ![r.body.id] = ApplyUpdates(@, r.req)]
    ELSE F

\* C21: fee persistence conflict.  A create_one_way_fee or update_one_way_fee
\* request that would give two rows the same (from_city, to_city) pair gets a
\* 400-class status and leaves the Fee Table as it was.
C21_FeeConflict ==
    [][(/\ resp = Idle
        /\ resp'.op \in FeeWriteOps
        /\ ~UniqueCities(RequestedFees(fees, resp')))
       => /\ resp'.status \in 400..499
          /\ fees' = fees]_vars

\* C22: Fee Table uniqueness.  No two rows have from_city and to_city that
\* are both equal when case is ignored.
C22_FeeUniqueness ==
    \A f, g \in DOMAIN fees :
        (/\ Lower(fees[f].from_city) = Lower(fees[g].from_city)
         /\ Lower(fees[f].to_city) = Lower(fees[g].to_city))
        => f = g

(***************************************************************************)
(* Properties of the catalog's administration.                             *)
(***************************************************************************)
\* C23: rate structural invariants.  Every stored Rate has
\* valid_from <= valid_until, min_days >= 1, and max_days null or
\* max_days >= min_days.
C23_RateStructure ==
    \A r \in DOMAIN rates :
        /\ rates[r].valid_from <= rates[r].valid_until
        /\ rates[r].min_days >= 1
        /\ rates[r].max_days = Null \/ rates[r].max_days >= rates[r].min_days

\* C24: tier cascade.  Every stored RateTier's rate_id refers to a stored
\* Rate, and a delete_rate step leaves no tier of a rate it removed.
C24_TierCascade ==
    [][/\ \A t \in DOMAIN tiers' : tiers'[t].rate_id \in DOMAIN rates'
       /\ \A id \in DOMAIN rates :
             DeleteRate(id)
             => /\ id \notin DOMAIN rates'
                /\ \A t \in DOMAIN tiers' : tiers'[t].rate_id # id]_vars

\* The first rate created and the tier created for it are gone while the
\* second rate and its tier are stored.
C24_Witness ==
    /\ (MaxRates - 1) \notin DOMAIN rates /\ MaxRates \in DOMAIN rates
    /\ (MaxTiers - 1) \notin DOMAIN tiers /\ MaxTiers \in DOMAIN tiers
    /\ tiers[MaxTiers].rate_id = MaxRates
    /\ nextId.rate > MaxRates /\ nextId.tier > MaxTiers

(***************************************************************************)
(* Properties of the fee calculator's short-circuits.                      *)
(***************************************************************************)
\* C25: location-id short-circuits.  The one_way_fee is 0 whenever the pickup
\* and dropoff location ids are equal, and the delivery_fee is 0 whenever the
\* vehicle has no home location or its home location is the pickup location,
\* whatever the Fee Table holds.
C25_LocationShortCircuits ==
    /\ (/\ resp.op \in {"one_way_fee", "calculate_price"}
        /\ resp.status = 200
        /\ resp.req.pickup_location_id = resp.req.dropoff_location_id)
       => resp.body.one_way_fee = 0
    /\ (/\ resp.op \in {"delivery_fee", "calculate_price"}
        /\ resp.status = 200
        /\ resp.req.vehicle_id \in DOMAIN Vehicles
        /\ \/ Vehicles[resp.req.vehicle_id].location_id = Null
           \/ Vehicles[resp.req.vehicle_id].location_id = resp.req.pickup_location_id)
       => resp.body.delivery_fee = 0

\* A one-way fee was asked for one and the same location while an active row
\* from its city to its city is stored.
C25_Witness ==
    /\ resp.op = "one_way_fee" /\ resp.status = 200
    /\ resp.req.pickup_location_id = resp.req.dropoff_location_id
    /\ resp.req.pickup_location_id \in DOMAIN Locations
    /\ \E f \in DOMAIN fees :
          FeeRowMatches(fees, f, City(resp.req.pickup_location_id),
                        City(resp.req.pickup_location_id))
    /\ resp.body.one_way_fee = 0

(***************************************************************************)
(* Properties of the parent-rate fields.                                   *)
(***************************************************************************)
\* The catalog with every parent, increment and price modifier erased.
WithoutParentFields(R) ==
    [r \in DOMAIN R |->
        [R[r] EXCEPT !.parent_rate_id = Null, !.increment_value = Null,
                     !.price_modifier_value = Null]]

\* C26: parent-rate fields are inert.  The resolver's answers on a catalog
\* are its answers on the catalog with the parent, increment and price
\* modifier fields erased: same rate id, same tier id, same price per day.
C26_ParentFieldsInert ==
    (resp.op \in ResolverOps /\ resp.status = 200)
    => LET flat == CalculateRateForBooking(WithoutParentFields(rates), tiers,
                       resp.req.vehicle_id, resp.body.pickup, resp.body.dropoff)
       IN  /\ flat = CalculateRateForBooking(rates, tiers, resp.req.vehicle_id,
                                             resp.body.pickup, resp.body.dropoff)
           /\ \E r \in flat :
                 /\ r[1] = resp.body.rate_id
                 /\ r[3] = resp.body.price_per_day
                 /\ resp.op = "rate_for_booking" => r[2] = resp.body.tier_id

\* The resolver selected a rate that has a parent and an increment and
\* reported its tier's own price.
C26_Witness ==
    /\ resp.op \in ResolverOps /\ resp.status = 200
    /\ resp.body.rate_id \in DOMAIN rates
    /\ rates[resp.body.rate_id].parent_rate_id \in DOMAIN rates
    /\ rates[resp.body.rate_id].increment_value = IncrementAmount
    /\ \E t \in DOMAIN tiers :
          /\ tiers[t].rate_id = resp.body.rate_id
          /\ tiers[t].price_per_day = resp.body.price_per_day

(***************************************************************************)
(* Properties of concurrent bookings.                                      *)
(***************************************************************************)
\* A request that names an existing vehicle and existing locations, with a
\* parseable window and contact fields that pass validation.
WellFormedBooking(payload) ==
    /\ {"vehicle_id", "pickup_location_id", "dropoff_location_id",
        "pickup_datetime", "dropoff_datetime"} \subseteq DOMAIN payload
    /\ payload.vehicle_id \in DOMAIN Vehicles
    /\ payload.pickup_location_id \in DOMAIN Locations
    /\ payload.dropoff_location_id \in DOMAIN Locations
    /\ payload.pickup_datetime.fmt = "iso" /\ payload.dropoff_datetime.fmt = "iso"
    /\ ~ContactStripRaises(payload)
    /\ ValidateContactPayload(payload, TRUE)

\* C27: no overlap reconciliation.  A well-formed create_booking request
\* succeeds however its steps interleave with those of another request for
\* the same vehicle and an overlapping window, and it leaves every stored
\* booking as it was.
C27_NoOverlapReconciliation ==
    [][(/\ resp = Idle
        /\ resp'.op = "create_booking"
        /\ WellFormedBooking(resp'.req))
       => /\ resp'.status = 201
          /\ \A b \in DOMAIN bookings : bookings'[b] = bookings[b]]_vars


\* The four priced values of a breakdown and of a booking row.
QuotedPrice(q) == <<q.rate_id, q.price_per_day, q.one_way_fee, q.delivery_fee>>

PersistedPrice(b) == <<b.rate_id, b.price_per_day, b.one_way_fee, b.delivery_fee>>

\* C28: quote equals booking price.  For an existing vehicle and the same
\* window, location ids and stored data, the rate_id, price_per_day,
\* one_way_fee and delivery_fee that create_booking persists are values that
\* calculate_price can return, and the values that calculate_price returns
\* are values that create_booking can persist.
C28_QuoteEqualsBooking ==
    /\ (resp.op = "create_booking" /\ resp.status = 201)
       => LET p == resp.req
          IN  PersistedPrice(bookings[resp.body.id]) \in
                 {QuotedPrice(q) :
                     q \in QuoteBodies(p.vehicle_id, p.pickup_datetime,
                                       p.dropoff_datetime, p.pickup_location_id,
                                       p.dropoff_location_id)}
    /\ (resp.op = "calculate_price" /\ resp.status = 200)
       => LET p == resp.req
              obj == [NewBooking EXCEPT
                         !.vehicle_id = p.vehicle_id,
                         !.pickup_datetime = p.pickup_date.tick,
                         !.dropoff_datetime = p.dropoff_date.tick,
                         !.pickup_location_id = p.pickup_location_id,
                         !.dropoff_location_id = p.dropoff_location_id]
          IN  QuotedPrice(resp.body) \in
                 {PersistedPrice(x.obj) :
                     x \in PriceNewBooking(rates, tiers, fees, obj)}

\* A booking was persisted with a tier price of a two-day rental whose
\* window covers three calendar dates, a one-way fee and a delivery fee.
C28_Witness ==
    /\ resp.op = "create_booking" /\ resp.status = 201
    /\ resp.req.vehicle_id = 2
    /\ resp.req.dropoff_datetime.tick - resp.req.pickup_datetime.tick
          = 3 * TicksPerDay - 1
    /\ bookings[resp.body.id].rate_tier_id # Null
    /\ bookings[resp.body.id].price_per_day = 36
    /\ bookings[resp.body.id].one_way_fee = 25
    /\ bookings[resp.body.id].delivery_fee = 10


(***************************************************************************)
(* Properties of the frame of delete_rate and of booking updates.          *)
(***************************************************************************)
\* C29: delete_rate frame.  A delete_rate(R) step removes only R and the
\* tiers of R: every other rate and every tier of every other rate is stored
\* afterwards as it was.
C29_DeleteRateFrame ==
    [][\A id \in DOMAIN rates :
          DeleteRate(id)
          => /\ \A r \in DOMAIN rates \ {id} :
                   r \in DOMAIN rates' /\ rates'[r] = rates[r]
             /\ \A t \in DOMAIN tiers :
                   tiers[t].rate_id # id
                   => t \in DOMAIN tiers' /\ tiers'[t] = tiers[t]]_vars


\* C30: no recomputation without a location change.  An update_booking or
\* partial_update_booking step that leaves both location ids of the booking
\* at their values, and whose payload does not set one_way_fee itself, leaves
\* the booking's one_way_fee as it was, whether or not the payload names the
\* locations and whatever happened to the Fee Table before.
C30_NoRecomputation ==
    [][\A id \in DOMAIN bookings :
          (/\ resp = Idle
           /\ resp'.op \in {"update_booking", "partial_update_booking"}
           /\ resp'.body.id = id
           /\ "one_way_fee" \notin DOMAIN resp'.req
           /\ bookings'[id].pickup_location_id = bookings[id].pickup_location_id
           /\ bookings'[id].dropoff_location_id = bookings[id].dropoff_location_id)
          => bookings'[id].one_way_fee = bookings[id].one_way_fee]_vars

====
